---------------------------- MODULE Spec2Model ----------------------------
(***************************************************************************)
(* A model of the tyf-tool scripts: the image barcode scanners             *)
(* (barcode_scanner_gf, barcode_scanner_mxnzp, barcode_scanner_tianapi,    *)
(* __barcode_scanner), the spreadsheet lookup scripts                      *)
(* (barcode_scanner_alicloud, product_info_query) and simple_ocr.          *)
(*                                                                         *)
(* One run of one script is one behaviour: Init picks the script and its   *)
(* inputs (the source sheet, the images, the command-line arguments), and  *)
(* every action is one step of that script's main().  What the script      *)
(* cannot control (what the decoder finds in an image, what the provider   *)
(* answers, whether a save succeeds, how much time elapsed, when the user  *)
(* interrupts) is chosen by the environment at the step that observes it.  *)
(*                                                                         *)
(* Text is a sequence of one-character strings, so that len(), strip(),    *)
(* str() and the '0' prefix are computed as Python computes them.          *)
(* Durations are in tenths of a second.                                    *)
(***************************************************************************)
EXTENDS Integers, Sequences, FiniteSets, TLC

(***************************************************************************)
(* Bounds of the model.                                                    *)
(***************************************************************************)
\* Rows of the sheet: row 1 is the header row, data rows are 2..MaxRow.
MaxRow == 3
\* At most this many images are embedded in the source sheet.
MaxImages == 2
\* The source sheet's max_column is between 1 and MaxSrcCol.
MaxSrcCol == 2

(***************************************************************************)
(* Text.                                                                   *)
(***************************************************************************)
DigitChars == {"0", "1", "2", "3", "4", "5", "6", "7", "8", "9"}

\* Barcode values the decoder can report or a cell can hold.
B13 == <<"6", "9", "0", "1", "2", "3", "4", "5", "6", "7", "8", "9", "2">>
B8 == <<"6", "9", "0", "1", "2", "3", "4", "1">>

\* str.strip(): leading and trailing blanks removed.
RECURSIVE LStrip(_)
LStrip(s) == IF s # <<>> /\ Head(s) = " " THEN LStrip(Tail(s)) ELSE s

RECURSIVE RStrip(_)
RStrip(s) ==
    IF s # <<>> /\ s[Len(s)] = " " THEN RStrip(SubSeq(s, 1, Len(s) - 1)) ELSE s

Strip(s) == RStrip(LStrip(s))

\* re.sub(r'[^0-9]', '', s): only the digits are kept.
RECURSIVE DigitsOnly(_)
DigitsOnly(s) ==
    IF s = <<>> THEN <<>>
    ELSE IF Head(s) \in DigitChars THEN <<Head(s)>> \o DigitsOnly(Tail(s))
    ELSE DigitsOnly(Tail(s))

(***************************************************************************)
(* Cell values as openpyxl hands them over: None, a str, an int or a float *)
(* (a float when the number is stored with a decimal point or exponent).   *)
(* s holds the text of a str, or the digits of the integral number.        *)
(***************************************************************************)
NoneValue == [t |-> "none", s |-> <<>>]
StrValue(s) == [t |-> "str", s |-> s]
IntValue(s) == [t |-> "int", s |-> s]
FloatValue(s) == [t |-> "float", s |-> s]

\* Python's str(): an integral float prints with a trailing ".0".
PyStr(v) ==
    CASE v.t = "none" -> <<"N", "o", "n", "e">>
      [] v.t = "float" -> v.s \o <<".", "0">>
      [] OTHER -> v.s

\* Python's truth value: None and the empty string are false.
Truthy(v) == v.t # "none" /\ v.s # <<>>

(***************************************************************************)
(* format_barcode: a value of length 13 gets a leading "0".                *)
(***************************************************************************)
PadLength == 13

\* barcode_scanner_gf.format_barcode, on the decoded text.
format_barcode(barcode_data) ==
    IF barcode_data # <<>> /\ Len(barcode_data) = PadLength
    THEN <<"0">> \o barcode_data
    ELSE barcode_data

\* product_info_query.format_barcode, on any value: str() and strip() first.
format_barcode_piq(barcode_data) ==
    IF Truthy(barcode_data) /\ Len(Strip(PyStr(barcode_data))) = PadLength
    THEN <<"0">> \o Strip(PyStr(barcode_data))
    ELSE IF Truthy(barcode_data) THEN Strip(PyStr(barcode_data)) ELSE <<>>


(***************************************************************************)
(* The scripts.  "legacy" is __barcode_scanner.py, "piq" is                *)
(* product_info_query.py, "ocr" is simple_ocr.py.                          *)
(***************************************************************************)
EnhancedScanners == {"gf", "mxnzp", "tianapi"}
ImageScanners == EnhancedScanners \cup {"legacy"}
SheetScripts == {"alicloud", "piq"}
LookupScripts == ImageScanners \cup SheetScripts

\* field_names of each script (the provider fields written to the sheet).
GdsFields ==
    <<"ProductName", "GTIN", "BrandName", "CompanyName", "NetContent",
      "ProductDescription">>
MxnzpFields == <<"goodsName", "barcode", "price", "brand", "supplier", "standard">>
TianapiFields ==
    <<"name", "barcode", "spec", "brand", "firm_name", "firm_address",
      "firm_status", "gross_weight", "width", "height", "depth", "goods_type",
      "goods_pic">>
\* barcode_scanner_alicloud writes result keys in this column order.
AlicloudFields == <<"ItemName", "ItemClassName", "gpcname">>

field_names(s, provider) ==
    CASE s \in {"gf", "piq"} -> GdsFields
      [] s = "mxnzp" -> MxnzpFields
      [] s = "tianapi" -> TianapiFields
      [] s = "legacy" -> IF provider = "tianapi" THEN TianapiFields ELSE MxnzpFields
      [] s = "alicloud" -> AlicloudFields
      [] OTHER -> <<>>

\* field_headers has one header per field, in the same order.
field_headers(s, provider) == field_names(s, provider)

(***************************************************************************)
(* Sheets.  A cell is a record: kind says what was written, i the field    *)
(* index of a header or a provider field, msg the error text, v the value. *)
(***************************************************************************)
Rows == 1..MaxRow
MaxFields == Len(TianapiFields)
Cols == 1..(MaxSrcCol + MaxFields)

EmptyCell == [kind |-> "none", i |-> 0, msg |-> "", v |-> NoneValue]
\* A cell of the source sheet holding value v.
SrcCell(v) == [kind |-> "src", i |-> 0, msg |-> "", v |-> v]
\* field_headers[i]
HeaderCell(i) == [kind |-> "header", i |-> i, msg |-> "", v |-> NoneValue]
\* data.get(field_names[i], '')
FieldCell(i, v) == [kind |-> "field", i |-> i, msg |-> "", v |-> v]
\* value=''
BlankCell == [kind |-> "blank", i |-> 0, msg |-> "", v |-> StrValue(<<>>)]
\* f"错误: {error_msg}"
ErrorCell(msg) == [kind |-> "error", i |-> 0, msg |-> msg, v |-> NoneValue]
\* f"查询失败({barcode})"
QueryFailedCell(b) == [kind |-> "query_failed", i |-> 0, msg |-> "", v |-> StrValue(b)]
\* "跳过: 空白或无效条码"
SkipCell == [kind |-> "skip", i |-> 0, msg |-> "", v |-> NoneValue]
\* f"处理错误: {e}"
ProcessErrorCell == [kind |-> "process_error", i |-> 0, msg |-> "", v |-> NoneValue]

EmptySheet == [rc \in Rows \X Cols |-> EmptyCell]

\* The largest of a set of indices, 1 for an empty sheet.
MaxOf(S) ==
    IF S = {} THEN 1
    ELSE LET x == CHOOSE y \in S : \A z \in S : z <= y IN x

\* Worksheet.max_column
max_column(sh) == MaxOf({rc[2] : rc \in {q \in DOMAIN sh : sh[q].kind # "none"}})

\* Worksheet.max_row
max_row(sh) == MaxOf({rc[1] : rc \in {q \in DOMAIN sh : sh[q].kind # "none"}})

\* worksheet.cell(row=r, column=c, value=x)
SetCell(sh, r, c, x) == [sh EXCEPT ![<<r, c>>] = x]

(***************************************************************************)
(* Files.  A name is a sequence of tokens, so that str.replace and the     *)
(* "temp_" prefix are computed.                                            *)
(***************************************************************************)
InputFile == <<"in", ".xlsx">>
OutputNames == {<<"out", ".xlsx">>, <<"out", ".xlsm">>}

\* f"temp_{output_file}"
temp_output(name) == <<"temp_">> \o name

\* name.replace('.xlsx', suffix + '.xlsx')
RECURSIVE ReplaceXlsx(_, _)
ReplaceXlsx(name, suffix) ==
    IF name = <<>> THEN <<>>
    ELSE IF Head(name) = ".xlsx"
         THEN <<suffix, ".xlsx">> \o ReplaceXlsx(Tail(name), suffix)
         ELSE <<Head(name)>> \o ReplaceXlsx(Tail(name), suffix)

\* output_file.replace('.xlsx', '_interrupted.xlsx')
interrupted_file(name) == ReplaceXlsx(name, "_interrupted")

\* output_file.replace('.xlsx', '_error_backup.xlsx')
backup_file(name) == ReplaceXlsx(name, "_error_backup")

FileNames ==
    {InputFile} \cup OutputNames
    \cup {temp_output(n) : n \in OutputNames}
    \cup {interrupted_file(n) : n \in OutputNames}
    \cup {backup_file(n) : n \in OutputNames}

NoFile == [exists |-> FALSE, cells |-> EmptySheet]
FileOf(sh) == [exists |-> TRUE, cells |-> sh]

copy2_new_workbook(dsk, src, dst) == [dsk EXCEPT ![dst] = FileOf(EmptySheet)]

copy2_unless_there(dsk, src, dst) ==
    IF dsk[dst].exists THEN dsk ELSE [dsk EXCEPT ![dst] = dsk[src]]

\* shutil.copy2(src, dst): dst is replaced.
copy2(dsk, src, dst) == [dsk EXCEPT ![dst] = dsk[src]]


(***************************************************************************)
(* Lookup results: the dict every query function returns.  data is         *)
(* "fields" for a provider record whose fields are scalars, "unwritable"   *)
(* for one holding a JSON array or object, "none" when there is no data.   *)
(***************************************************************************)
SuccessResult(data, b) ==
    [success |-> TRUE, barcode_only |-> FALSE, error |-> "", data |-> data,
     gtin |-> b]
BarcodeOnlyResult(b) ==
    [success |-> TRUE, barcode_only |-> TRUE, error |-> "", data |-> "barcode",
     gtin |-> b]
FailureResult(error) ==
    [success |-> FALSE, barcode_only |-> FALSE, error |-> error, data |-> "none",
     gtin |-> <<>>]

\* {'success': False, 'error': '未识别到条码'}
NotFoundResult == FailureResult("no_barcode_recognized")
\* {'success': False, 'error': f'处理错误: {e}'}
RowErrorResult == FailureResult("processing_error")

\* What the provider's answer can be, as the query functions tell them apart.
QueryOutcomes == {"ok", "unwritable", "api_error", "network", "exception"}

\* The mapping of an outcome to the returned dict (the query functions'
\* return statements).  The same in every query_product_info_* variant.
result_of(outcome, barcode) ==
    CASE outcome = "ok" -> SuccessResult("fields", barcode)
      [] outcome = "unwritable" -> SuccessResult("unwritable", barcode)
      [] outcome = "api_error" -> FailureResult("api_error")
      [] outcome = "network" -> FailureResult("network_error")
      [] OTHER -> FailureResult("query_exception")

(***************************************************************************)
(* Events: what a run does that the provider or the clock can see.         *)
(*   call  - a query function is called for the barcode of row `row`;      *)
(*           d is the time elapsed since the previous call returned as     *)
(*           main measures it (barcode_scanner_gf), 0 when not measured;   *)
(*           success is the 'success' of the dict the call returns         *)
(*   http  - one HTTP request is sent                                      *)
(*   sleep - time.sleep(d)                                                 *)
(*   decoded - decode_barcode_from_image returned for an image of the row; *)
(*           b is the text pyzbar found, <<>> when it found none            *)
(*   failed - the handler of the row's try block caught an exception       *)
(***************************************************************************)
CallEvent(row, b, d, success) ==
    [e |-> "call", row |-> row, b |-> b, d |-> d, success |-> success]
HttpEvent(row, b) == [e |-> "http", row |-> row, b |-> b, d |-> 0, success |-> FALSE]
SleepEvent(row, d) ==
    [e |-> "sleep", row |-> row, b |-> <<>>, d |-> d, success |-> FALSE]
DecodedEvent(row, b) ==
    [e |-> "decoded", row |-> row, b |-> b, d |-> 0, success |-> FALSE]
FailedEvent(row) ==
    [e |-> "failed", row |-> row, b |-> <<>>, d |-> 0, success |-> FALSE]


(***************************************************************************)
(* decode_barcode_from_image: the decode attempts in the order the code    *)
(* makes them.                                                             *)
(***************************************************************************)
Attempt(group, arg) == [group |-> group, arg |-> arg]

\* range(lo, hi, step) of Python, for a positive step.
RECURSIVE Range(_, _, _)
Range(lo, hi, step) == IF lo >= hi THEN <<>> ELSE <<lo>> \o Range(lo + step, hi, step)

processed_images_reordered ==
    <<Attempt("grayscale", 0), Attempt("contrast", 0), Attempt("blurred", 0),
      Attempt("sharpened", 0), Attempt("brightness", 0)>>

\* processed_images, in append order.
processed_images ==
    <<Attempt("grayscale", 0), Attempt("contrast", 0), Attempt("sharpened", 0),
      Attempt("blurred", 0), Attempt("brightness", 0)>>

rotation_angles_with_zero == Range(-10, 11, 2)

\* for angle in range(-10, 11, 2): if angle == 0: continue
rotation_angles ==
    LET NotZero(a) == a # 0 IN SelectSeq(Range(-10, 11, 2), NotZero)

\* for scale in [0.8, 1.2, 1.5]  (in tenths)
scales == <<8, 12, 15>>

\* The attempts of the enhanced decoder, with and without OpenCV.
enhanced_attempts(has_cv2) ==
    <<Attempt("as_is", 0)>>
    \o processed_images
    \o [i \in 1..Len(rotation_angles) |-> Attempt("rotated", rotation_angles[i])]
    \o [i \in 1..Len(scales) |-> Attempt("scaled", scales[i])]
    \o <<Attempt("cropped", 0)>>
    \o (IF has_cv2
        THEN <<Attempt("adaptive_threshold", 0), Attempt("morphology", 0)>>
        ELSE <<>>)

\* __barcode_scanner decodes the image as it is, once.
legacy_attempts == <<Attempt("as_is", 0)>>

attempts_of(s, has_cv2) ==
    IF s \in EnhancedScanners THEN enhanced_attempts(has_cv2) ELSE legacy_attempts

\* What pyzbar.decode finds in one prepared image: nothing, a symbol, or it
\* raises (as does a rotation, scaling or crop that fails just before it).
barcode_type(b) == IF Len(b) = 13 THEN "EAN13" ELSE "EAN8"
EmptyDecode == [res |-> "empty", value |-> <<>>, type |-> ""]
RaisedDecode == [res |-> "raised", value |-> <<>>, type |-> ""]
HitDecode(b) == [res |-> "hit", value |-> b, type |-> barcode_type(b)]

\* return None, None
NoBarcode == [found |-> FALSE, value |-> <<>>, type |-> ""]

\* The value a successful attempt returns: barcode_scanner_gf formats it.
returned(s, o) ==
    [found |-> TRUE,
     value |-> IF s = "gf" THEN format_barcode(o.value) ELSE o.value,
     type |-> o.type]

\* Every attempt some decoder makes.
AllAttempts == {enhanced_attempts(TRUE)[j] : j \in 1..Len(enhanced_attempts(TRUE))}

\* An image, as far as decoding goes: whether Image.open accepts the bytes,
\* and what pyzbar.decode finds in each prepared version of it.
BlankImage == [opens |-> TRUE, finds |-> [a \in AllAttempts |-> EmptyDecode]]
BadImage == [opens |-> FALSE, finds |-> [a \in AllAttempts |-> EmptyDecode]]
ImageWith(a1, o1, a2, o2) ==
    [opens |-> TRUE,
     finds |-> [a \in AllAttempts |->
                   IF a = a1 THEN o1 ELSE IF a = a2 THEN o2 ELSE EmptyDecode]]

\* The attempts from the j-th on: the first symbol found is returned, an
\* exception ends the function with (None, None), as does the end of the list.
RECURSIVE decode_from(_, _, _, _, _)
decode_from(s, atts, img, j, log) ==
    IF j > Len(atts) THEN [tried |-> log, ret |-> NoBarcode]
    ELSE LET o == img.finds[atts[j]]
             log2 == Append(log, [attempt |-> atts[j], outcome |-> o])
         IN CASE o.res = "hit" -> [tried |-> log2, ret |-> returned(s, o)]
              [] o.res = "raised" -> [tried |-> log2, ret |-> NoBarcode]
              [] OTHER -> decode_from(s, atts, img, j + 1, log2)

\* barcode.data.decode('utf-8') of the attempt that found a symbol.
found_text(log) ==
    IF log # <<>> /\ log[Len(log)].outcome.res = "hit"
    THEN log[Len(log)].outcome.value
    ELSE <<>>

\* decode_barcode_from_image(image_data): what it returns (ret) and the
\* attempts it made (tried).
decode_barcode_from_image(s, has_cv2, img) ==
    IF ~img.opens THEN [tried |-> <<>>, ret |-> NoBarcode]
    ELSE decode_from(s, attempts_of(s, has_cv2), img, 1, <<>>)


(***************************************************************************)
(* Rate limiting and requests of the query functions.                      *)
(***************************************************************************)
\* barcode_scanner_gf: "if elapsed_time < 1.0" (tenths of a second)
QpsInterval == 10
\* barcode_scanner_mxnzp: time.sleep(1)
MxnzpSleep == 10
\* barcode_scanner_alicloud: time.sleep(0.1)
AlicloudSleep == 1
\* product_info_query: time.sleep(3)
PiqSleep == 30
\* barcode_scanner_alicloud: urllib3.Retry(total=3, ...)
RetryTotal == 3

\* The time main can measure between two calls: less than the interval, or not.
ElapsedChoices == {2, QpsInterval}

sleeps_before_never(s, row, has_last, elapsed) == <<>>

sleeps_before_elapsed(s, row, has_last, elapsed) ==
    CASE s = "gf" ->
           IF has_last /\ elapsed < QpsInterval
           THEN <<SleepEvent(row, elapsed)>>
           ELSE <<>>
      [] s = "piq" -> <<SleepEvent(row, PiqSleep)>>
      [] OTHER -> <<>>

\* The sleeps a query function makes before it sends its request.
sleeps_before(s, row, has_last, elapsed) ==
    CASE s = "gf" ->
           IF has_last /\ elapsed < QpsInterval
           THEN <<SleepEvent(row, QpsInterval - elapsed)>>
           ELSE <<>>
      [] s = "piq" -> <<SleepEvent(row, PiqSleep)>>
      [] OTHER -> <<>>

\* The sleeps main makes after the query of a row returned.
sleeps_after(s, row) ==
    CASE s = "mxnzp" -> <<SleepEvent(row, MxnzpSleep)>>
      [] s = "alicloud" -> <<SleepEvent(row, AlicloudSleep)>>
      [] OTHER -> <<>>

max_requests_twice(s) == 2

\* The requests one call can put on the wire: requests.get sends one; the
\* pool of barcode_scanner_alicloud re-sends a failed one RetryTotal times.
max_requests(s) == IF s = "alicloud" THEN 1 + RetryTotal ELSE 1

\* The numbers of requests a call with this outcome can have sent: a call
\* that ends in a network failure has used every retry.
request_counts(s, outcome) ==
    IF outcome = "network" THEN {max_requests(s)} ELSE 1..max_requests(s)

\* What one call of a query function adds to the events.
call_events(s, row, b, has_last, elapsed, n, success) ==
    <<CallEvent(row, b, IF s = "gf" /\ has_last THEN elapsed ELSE 0, success)>>
    \o sleeps_before(s, row, has_last, elapsed)
    \o [j \in 1..n |-> HttpEvent(row, b)]

\* Everything one query call and the sleep after it add to the events.
query_events(s, row, b, has_last, elapsed, n, success) ==
    call_events(s, row, b, has_last, elapsed, n, success) \o sleeps_after(s, row)

stored_result_plain(s, result, b) == result

\* What main records for a queried row: barcode_scanner_gf turns a failed
\* lookup into a success that carries the barcode alone.
stored_result(s, result, b) ==
    IF s = "gf" /\ ~result.success THEN BarcodeOnlyResult(b) ELSE result

(***************************************************************************)
(* Writing results.                                                        *)
(***************************************************************************)
start_col_of_last(sh) == max_column(sh)

\* start_col = max_col + 1
start_col_of(sh) == max_column(sh) + 1

\* data.get(field_name, ''): the barcode-only record of barcode_scanner_gf
\* holds '' in every field but GTIN.
field_value(result, name) ==
    CASE result.data = "unwritable" -> [t |-> "list", s |-> <<>>]
      [] result.data = "barcode" ->
           IF name = "GTIN" THEN StrValue(result.gtin) ELSE StrValue(<<>>)
      [] name \in {"GTIN", "barcode"} -> StrValue(result.gtin)
      [] OTHER -> StrValue(<<"v">>)

\* The cell a value is stored as.
cell_of(i, v) == IF v = StrValue(<<>>) THEN BlankCell ELSE FieldCell(i, v)

\* for i, header in enumerate(field_headers): cell(row=1, column=start_col + i)
RECURSIVE write_headers(_, _, _, _)
write_headers(sh, c0, headers, i) ==
    IF i >= Len(headers) THEN sh
    ELSE write_headers(SetCell(sh, 1, c0 + i, HeaderCell(i)), c0, headers, i + 1)

\* for i, field_name in enumerate(field_names): cell(row, start_col + i, value)
RECURSIVE write_fields(_, _, _, _, _, _)
write_fields(sh, row, c0, names, result, i) ==
    IF i >= Len(names) THEN sh
    ELSE write_fields(SetCell(sh, row, c0 + i, cell_of(i, field_value(result, names[i + 1]))),
                      row, c0, names, result, i + 1)

\* for i in range(1, len(field_names)): cell(row, start_col + i, value='')
RECURSIVE write_blanks(_, _, _, _, _)
write_blanks(sh, row, c0, n, i) ==
    IF i >= n THEN sh
    ELSE write_blanks(SetCell(sh, row, c0 + i, BlankCell), row, c0, n, i + 1)

\* The first cell gets `first`, the others ''.
write_marker(sh, row, c0, n, first) ==
    write_blanks(SetCell(sh, row, c0, first), row, c0, n, 1)

write_result_no_blanks(sh, row, c0, names, result) ==
    IF result.success /\ result.data # "none"
    THEN write_fields(sh, row, c0, names, result, 0)
    ELSE SetCell(sh, row, c0, ErrorCell(result.error))

\* One iteration of "for row, result in query_results.items()".
write_result(sh, row, c0, names, result) ==
    IF result.success /\ result.data # "none"
    THEN write_fields(sh, row, c0, names, result, 0)
    ELSE write_marker(sh, row, c0, Len(names), ErrorCell(result.error))

\* The whole loop over query_results (a dict: one entry per row).
RECURSIVE write_results(_, _, _, _, _)
write_results(sh, rows, c0, names, results) ==
    IF rows = {} THEN sh
    ELSE LET r == CHOOSE x \in rows : \A y \in rows : x <= y
         IN write_results(write_result(sh, r, c0, names, results[r]),
                          rows \ {r}, c0, names, results)

\* A provider field that openpyxl cannot store makes cell() raise.
all_writable(results) ==
    \A r \in DOMAIN results : results[r].data # "unwritable"


(***************************************************************************)
(* HeartGuardian: get_config_from_api.                                     *)
(***************************************************************************)
DEFAULT_MAX_WINDOWS == 100
\* DEFAULT_TIPS and DEFAULT_BG_COLORS, cut to their first entries.
DEFAULT_TIPS == <<"drink_water", "keep_smiling", "full_of_energy">>
DEFAULT_BG_COLORS == <<"lightpink", "skyblue">>

\* Exception classes that are subclasses of Exception.
Exceptions ==
    {"ConnectionError", "JSONDecodeError", "AttributeError", "TypeError",
     "ValueError", "RecursionError"}

\* "except (json.JSONDecodeError, TypeError)" of the tips and bg_colors blocks
list_handler_catches(e) == e \in {"JSONDecodeError", "TypeError"}

\* "except (ValueError, TypeError)" of the max_windows block
int_handler_catches(e) == e \in {"ValueError", "TypeError"}

outer_handler_catches_requests_only(e) == e = "ConnectionError"

\* "except Exception as e" around the whole request
outer_handler_catches(e) == e \in Exceptions

\* The value of a field of common_config: a JSON string or another value.
\* A string is kept by what json.loads makes of it (text), or by its
\* characters (chars) for int().
AbsentField == [present |-> FALSE, t |-> "none", text |-> "", items |-> <<>>, chars |-> <<>>]
NumberField(n) ==
    [present |-> TRUE, t |-> "int", text |-> "", items |-> <<>>, chars |-> <<>>]
\* A string that is no JSON ("invalid"), a JSON object ("object"), a JSON
\* array of `items` ("list"), or JSON nested too deep for the parser ("deep").
JsonString(text, items) ==
    [present |-> TRUE, t |-> "str", text |-> text, items |-> items, chars |-> <<>>]
\* A string of the characters s.
CharString(s) ==
    [present |-> TRUE, t |-> "str", text |-> "chars", items |-> <<>>, chars |-> s]

\* The value of a decimal digit.
DigitValue(c) ==
    CASE c = "0" -> 0 [] c = "1" -> 1 [] c = "2" -> 2 [] c = "3" -> 3 [] c = "4" -> 4
      [] c = "5" -> 5 [] c = "6" -> 6 [] c = "7" -> 7 [] c = "8" -> 8 [] OTHER -> 9

RECURSIVE DigitsValue(_, _)
DigitsValue(s, acc) ==
    IF s = <<>> THEN acc ELSE DigitsValue(Tail(s), acc * 10 + DigitValue(Head(s)))

\* int(s) of a str: blanks around, one sign, then digits only.
\* ok is FALSE where int raises ValueError.
ParseInt(s) ==
    LET t == Strip(s)
        signed == t # <<>> /\ Head(t) \in {"+", "-"}
        digits == IF signed THEN Tail(t) ELSE t
        valid == digits # <<>> /\ \A j \in 1..Len(digits) : digits[j] \in DigitChars
    IN IF ~valid THEN [ok |-> FALSE, n |-> 0]
       ELSE [ok |-> TRUE,
             n |-> IF signed /\ Head(t) = "-" THEN 0 - DigitsValue(digits, 0)
                   ELSE DigitsValue(digits, 0)]

\* One of the two blocks that parse a list (tips, bg_colors): the value the
\* variable holds afterwards and the exception that leaves the block.
\* cc is the kind of common_config, f the field, current the value so far.
parse_list_field(cc, f, current) ==
    CASE cc = "names" ->
           \* common_config is a list holding the field names: indexing it
           \* by a str raises TypeError inside the block
           [value |-> current,
            exc |-> IF list_handler_catches("TypeError") THEN "none" ELSE "TypeError"]
      [] ~f.present \/ f.t # "str" -> [value |-> current, exc |-> "none"]
      [] f.text = "list" -> [value |-> f.items, exc |-> "none"]
      [] f.text = "deep" ->
           [value |-> current,
            exc |-> IF list_handler_catches("RecursionError") THEN "none"
                    ELSE "RecursionError"]
      [] f.text = "object" -> [value |-> current, exc |-> "none"]
      [] OTHER ->
           [value |-> current,
            exc |-> IF list_handler_catches("JSONDecodeError") THEN "none"
                    ELSE "JSONDecodeError"]

\* The block that parses max_windows.
parse_max_windows(cc, f, current) ==
    CASE cc = "names" ->
           [value |-> current,
            exc |-> IF int_handler_catches("TypeError") THEN "none" ELSE "TypeError"]
      [] ~f.present \/ f.t # "str" -> [value |-> current, exc |-> "none"]
      [] ~ParseInt(f.chars).ok ->
           [value |-> current,
            exc |-> IF int_handler_catches("ValueError") THEN "none" ELSE "ValueError"]
      [] ParseInt(f.chars).n <= 0 -> [value |-> DEFAULT_MAX_WINDOWS, exc |-> "none"]
      [] OTHER -> [value |-> ParseInt(f.chars).n, exc |-> "none"]

\* What the statements before the three blocks come to: "fields" when they
\* reach the blocks, "defaults" when a condition sends them past the blocks,
\* or the exception they raise.
\*   r.request   "ok", or "raises" (requests.get raises)
\*   r.status    the status code
\*   r.body      "invalid" (response.json() raises), "list" (JSON that is no
\*               object), "dict"
\*   r.code, r.has_data   data.get("code"), "data" in data
\*   r.data      "dict", or "none" (data["data"] is null)
\*   r.cc        common_config: "absent", "dict", "none" (null), "names" (a
\*               list holding the names of the fields)
before_fields(r) ==
    CASE r.request = "raises" -> "ConnectionError"
      [] r.status # 200 -> "defaults"
      [] r.body = "invalid" -> "JSONDecodeError"
      [] r.body = "list" -> "AttributeError"
      [] r.code # 0 \/ ~r.has_data -> "defaults"
      [] r.data = "none" -> "AttributeError"
      [] r.cc = "none" -> "TypeError"
      [] OTHER -> "fields"

\* The field as "in" and indexing find it in common_config.
field_of(r, name) ==
    CASE r.cc = "absent" -> AbsentField
      [] r.cc = "names" -> NumberField(0)
      [] OTHER -> r.fields[name]

\* get_config_from_api(): the three values it returns, and whether an
\* exception left it.
get_config_from_api(r) ==
    LET b == before_fields(r)
        t == parse_list_field(r.cc, field_of(r, "tips"), DEFAULT_TIPS)
        c == parse_list_field(r.cc, field_of(r, "bg_colors"), DEFAULT_BG_COLORS)
        m == parse_max_windows(r.cc, field_of(r, "max_windows"), DEFAULT_MAX_WINDOWS)
        \* the exception that reaches the outer handler, "none" if none does
        e == CASE b = "defaults" -> "none"
               [] b # "fields" -> b
               [] t.exc # "none" -> t.exc
               [] c.exc # "none" -> c.exc
               [] OTHER -> m.exc
        \* how far the blocks got
        reached == b = "fields"
    IN [tips |-> IF reached THEN t.value ELSE DEFAULT_TIPS,
        bg_colors |-> IF reached /\ t.exc = "none" THEN c.value ELSE DEFAULT_BG_COLORS,
        max_windows |-> IF reached /\ t.exc = "none" /\ c.exc = "none" THEN m.value
                        ELSE DEFAULT_MAX_WINDOWS,
        raised |-> e # "none" /\ ~outer_handler_catches(e)]

\* The answers of the configuration request.
ListFields ==
    {AbsentField, NumberField(0), JsonString("invalid", <<>>),
     JsonString("object", <<>>), JsonString("deep", <<>>), JsonString("list", <<>>),
     JsonString("list", <<"tip">>)}
MaxWindowsFields ==
    {AbsentField, NumberField(0), CharString(<<"a">>), CharString(<<>>),
     CharString(<<"0">>), CharString(<<"-", "3">>), CharString(<<"2">>),
     CharString(<<" ", "1", "2", " ">>), CharString(<<"1", ".", "5">>)}

ConfigAnswer(request, status, body, code, has_data, data, cc, fields) ==
    [request |-> request, status |-> status, body |-> body, code |-> code,
     has_data |-> has_data, data |-> data, cc |-> cc, fields |-> fields]
NoFields == [name \in {"tips", "bg_colors", "max_windows"} |-> AbsentField]

\* Answers that never reach the fields, and answers with every combination
\* of fields.
ConfigAnswers ==
    {ConfigAnswer("raises", 0, "invalid", 0, FALSE, "none", "absent", NoFields),
     ConfigAnswer("ok", 500, "dict", 0, TRUE, "dict", "dict", NoFields),
     ConfigAnswer("ok", 200, "invalid", 0, FALSE, "none", "absent", NoFields),
     ConfigAnswer("ok", 200, "list", 0, FALSE, "none", "absent", NoFields),
     ConfigAnswer("ok", 200, "dict", 1, TRUE, "dict", "dict", NoFields),
     ConfigAnswer("ok", 200, "dict", 0, FALSE, "none", "absent", NoFields),
     ConfigAnswer("ok", 200, "dict", 0, TRUE, "none", "absent", NoFields),
     ConfigAnswer("ok", 200, "dict", 0, TRUE, "dict", "absent", NoFields),
     ConfigAnswer("ok", 200, "dict", 0, TRUE, "dict", "none", NoFields),
     ConfigAnswer("ok", 200, "dict", 0, TRUE, "dict", "names", NoFields)}
    \cup {ConfigAnswer("ok", 200, "dict", 0, TRUE, "dict", "dict",
                       [name \in {"tips", "bg_colors", "max_windows"} |->
                           CASE name = "tips" -> t
                             [] name = "bg_colors" -> c
                             [] OTHER -> m]) :
             t \in ListFields, c \in ListFields, m \in MaxWindowsFields}

(***************************************************************************)
(* HeartGuardian: the windows.                                             *)
(***************************************************************************)
\* At most this many window requests are put into window_queue.
MaxWindows == 3
WindowIds == 1..MaxWindows

\* A Toplevel as Tk has it: state is "none" before it is created, then
\* "alive", then "destroyed".  bound says whether create_warm_tip_window got
\* as far as the key bindings and the WM_DELETE_WINDOW protocol.  unlisted
\* says whether on_window_close took it out of all_windows.
NoWindow == [state |-> "none", bound |-> FALSE, unlisted |-> FALSE]
Toplevel(bound) == [state |-> "alive", bound |-> bound, unlisted |-> FALSE]

\* window.destroy()
destroy(ws, w) == [ws EXCEPT ![w].state = "destroyed"]

\* The elements of a list.
Elements(list) == {list[j] : j \in 1..Len(list)}

destroy_all_but_last(ws, list) ==
    [w \in WindowIds |->
        IF w \in Elements(list) /\ w # list[Len(list)]
        THEN [ws[w] EXCEPT !.state = "destroyed"]
        ELSE ws[w]]

\* for win in all_windows[:]: win.destroy()
destroy_all(ws, list) ==
    [w \in WindowIds |->
        IF w \in Elements(list) THEN [ws[w] EXCEPT !.state = "destroyed"] ELSE ws[w]]

\* all_windows.remove(window)
remove(list, w) == LET Other(x) == x # w IN SelectSeq(list, Other)

\* The windows created so far.
created(ws) == {w \in WindowIds : ws[w].state # "none"}

\* The answers of the configuration request a run of the program starts
\* from: none, empty lists, a list and a small max_windows.
NoAnswer == ConfigAnswer("raises", 0, "invalid", 0, FALSE, "none", "absent", NoFields)
GuardianAnswers ==
    {NoAnswer}
    \cup {ConfigAnswer("ok", 200, "dict", 0, TRUE, "dict", "dict",
                       [name \in {"tips", "bg_colors", "max_windows"} |->
                           CASE name = "tips" -> t
                             [] name = "bg_colors" -> AbsentField
                             [] OTHER -> CharString(<<"2">>)]) :
             t \in {JsonString("list", <<>>), JsonString("list", <<"tip">>)}}

(***************************************************************************)
(* The OCR service: OCRService.process_image and the recognize endpoint.   *)
(***************************************************************************)
\* At most this many text boxes are found in an image.
MaxWords == 2

\* StandardResponse(code, data, msg); NoData and NoMsg stand for None.
NoData == [given |-> FALSE]
NoMsg == "None"
StandardResponse(code, data, msg) ==
    [kind |-> "StandardResponse", code |-> code, data |-> data, msg |-> msg]

\* success_response(data, msg)
success_response(data, msg) == StandardResponse(0, data, msg)

\* error_response(code, data, msg)
error_response(code, data, msg) == StandardResponse(code, data, msg)

\* Nothing answered yet; an exception that left recognize_image.
NoResponse == [kind |-> "none", code |-> 0, data |-> NoData, msg |-> NoMsg]
Escaped(e) == [kind |-> "exception", code |-> 0, data |-> NoData, msg |-> e]

\* ' '.join(texts)
RECURSIVE Join(_)
Join(texts) ==
    IF texts = <<>> THEN <<>>
    ELSE IF Len(texts) = 1 THEN Head(texts)
    ELSE Head(texts) \o <<" ">> \o Join(Tail(texts))

\* sum(probs)
RECURSIVE Sum(_)
Sum(probs) == IF probs = <<>> THEN 0 ELSE Head(probs) + Sum(Tail(probs))

\* sum(probs) / len(results) if results else 0, as the fraction num/den
\* (probabilities in hundredths).
confidence_of(results) ==
    IF results # <<>>
    THEN [num |-> Sum([j \in 1..Len(results) |-> results[j].prob]), den |-> Len(results)]
    ELSE [num |-> 0, den |-> 1]

\* The exceptions the steps of process_image raise, all of them subclasses
\* of Exception: binascii.Error, PIL.UnidentifiedImageError, what readtext
\* raises.
ServiceExceptions == {"binascii.Error", "UnidentifiedImageError", "RuntimeError"}

\* process_image(image_base64): the dict it returns, or the exception.
\*   req.b64      "ok", or "bad_padding" (b64decode raises)
\*   req.bytes    "image", or "garbage" (Image.open raises)
\*   req.reader   "ok", or "raises" (readtext raises)
\*   req.results  what readtext returns: a list of (bbox, text, prob)
process_image(req, processing_time) ==
    CASE req.b64 # "ok" -> [exc |-> "binascii.Error", result |-> NoData]
      [] req.bytes # "image" -> [exc |-> "UnidentifiedImageError", result |-> NoData]
      [] req.reader # "ok" -> [exc |-> "RuntimeError", result |-> NoData]
      [] OTHER ->
           [exc |-> "none",
            result |->
               [given |-> TRUE,
                text |-> Join([j \in 1..Len(req.results) |-> req.results[j].text]),
                confidence |-> confidence_of(req.results),
                words |-> Len(req.results),
                lines |-> 1,
                paragraphs |-> 1,
                processing_time |-> processing_time]]

endpoint_catches_value_errors(e) == e \in {"binascii.Error", "UnidentifiedImageError"}

\* "except Exception as e" of recognize_image
endpoint_catches(e) == e \in ServiceExceptions

\* recognize_image(request)
recognize_image(req, processing_time) ==
    LET p == process_image(req, processing_time)
    IN IF p.exc = "none" THEN success_response(p.result, NoMsg)
       ELSE IF endpoint_catches(p.exc) THEN error_response(500, NoData, p.exc)
       ELSE Escaped(p.exc)

\* The requests: what the image_base64 of a request comes to.
TextBoxes ==
    {[text |-> t, prob |-> p] : t \in {<<"a">>, <<"b", "c">>}, p \in {40, 90, 100}}
OCRRequest(b64, bytes, reader, results) ==
    [b64 |-> b64, bytes |-> bytes, reader |-> reader, results |-> results]
Requests ==
    {OCRRequest("bad_padding", "garbage", "ok", <<>>),
     OCRRequest("ok", "garbage", "ok", <<>>),
     OCRRequest("ok", "image", "raises", <<>>)}
    \cup {OCRRequest("ok", "image", "ok", results) :
             results \in UNION {[1..n -> TextBoxes] : n \in 0..MaxWords}}

\* time.time() - start_time, in tenths of a second.
ProcessingTimes == {1, 25}

\* No request made to the service.
NoRequest == OCRRequest("none", "none", "none", <<>>)

(***************************************************************************)
(* State.                                                                  *)
(***************************************************************************)
VARIABLES
    script,          \* which script runs
    api_provider,    \* --api-provider of __barcode_scanner
    cv2,             \* whether "import cv2" succeeded
    images,          \* source_sheet._images: the anchor (row, col) of each
    IMAGE_COLUMNS,   \* --image-cols
    RESULT_COLUMNS,  \* --result-cols of simple_ocr
    output_file,     \* the output file's name
    start_row,       \* --start-row
    pc,              \* where main() is
    exc,             \* what left main() as an exception, "none" if nothing
    start_col,       \* first appended column, 0 until computed
    todo,            \* the (idx, row, col) the two image loops visit, in order
    pos,             \* index in todo, or the current row of a sheet script
    image,           \* the image being processed
    tried,           \* the attempts the last decode made, with outcomes
    ret,             \* what decode_barcode_from_image returned
    barcode_data,    \* the barcode of the current row
    last_api_request_time, \* FALSE while None
    query_results,   \* row -> result (scanners), list of results (alicloud)
    sheet,           \* the cells of the workbook being written
    disk,            \* the files
    events,          \* calls, requests and sleeps so far
    total_processed, \* product_info_query: the counter total_processed
    success_count,   \* product_info_query: the counter success_count
    \* A second run of the same script on the same files.
    run,             \* 0 in a run on its own, 1 in the first of two runs of
                     \* the script, 2 in the second
    first,           \* how the first run ended, once a second one started
    oracle,          \* what the images, the provider and the file system
                     \* answered in the first run, by kind and position
    \* HeartGuardian.
    api_config,      \* what the configuration request comes to
    tips,            \* the module's tips
    bg_colors,       \* the module's bg_colors
    MAX_WINDOWS,     \* the module's MAX_WINDOWS
    config_raised,   \* whether get_config_from_api raised
    all_windows,     \* the list all_windows (window ids)
    running,         \* the flag running
    thread_stop,     \* the flag thread_stop
    window_queue,    \* the number of requests in window_queue
    window_count,    \* the counter window_count
    windows,         \* Tk's side: each Toplevel ever created
    quit,            \* whether root.quit() was called
    gpc,             \* where the main thread of HeartGuardian is
    tpc,             \* where its window_creation_task thread is
    \* The OCR service.
    request,         \* the OCRRequest being served
    response         \* what recognize_image answered, NoResponse before

inputs ==
    <<script, api_provider, cv2, images, IMAGE_COLUMNS, RESULT_COLUMNS, output_file,
      start_row>>
decoder == <<image, tried, ret>>
rerun == <<run, first>>
guardian ==
    <<api_config, tips, bg_colors, MAX_WINDOWS, config_raised, all_windows, running,
      thread_stop, window_queue, window_count, windows, quit, gpc, tpc>>
service == <<request, response>>
\* What no step of a script's run touches.
counters == <<total_processed, success_count>>
outside == <<rerun, guardian, service, counters>>
\* The state of the scripts.
scripts ==
    <<inputs, pc, exc, start_col, todo, pos, decoder, barcode_data,
      last_api_request_time, query_results, sheet, disk, events, counters, rerun,
      oracle>>
vars == <<scripts, guardian, service>>

\* A run on its own (run = 0: no second run follows, nothing is noted).
NoRun == [ended |-> "none", start_row |-> 0, start_col |-> 0, cells |-> EmptySheet,
          file |-> NoFile]
NoAnswers == [k \in {} |-> 0]
SingleRun ==
    /\ run = 0
    /\ first = NoRun
    /\ oracle = NoAnswers

\* What the environment can answer at the current position: what it
\* answered there in the first run, when this is a second run with the same
\* arguments, and any of the choices otherwise.
answered(kind, choices) ==
    IF run = 2 /\ <<kind, pos>> \in DOMAIN oracle
    THEN {oracle[<<kind, pos>>]}
    ELSE choices

\* The answers with the one at the current position noted.
noted(kind, choice) ==
    IF run = 0 THEN oracle
    ELSE [k \in DOMAIN oracle \cup {<<kind, pos>>} |->
             IF k = <<kind, pos>> THEN choice ELSE oracle[k]]

\* HeartGuardian not started.
NoGuardian ==
    /\ api_config = NoAnswer
    /\ tips = DEFAULT_TIPS
    /\ bg_colors = DEFAULT_BG_COLORS
    /\ MAX_WINDOWS = DEFAULT_MAX_WINDOWS
    /\ config_raised = FALSE
    /\ all_windows = <<>>
    /\ running = TRUE
    /\ thread_stop = FALSE
    /\ window_queue = 0
    /\ window_count = 0
    /\ windows = [w \in WindowIds |-> NoWindow]
    /\ quit = FALSE
    /\ gpc = "idle"
    /\ tpc = "idle"

\* The OCR service not asked.
NoService ==
    /\ request = NoRequest
    /\ response = NoResponse

(***************************************************************************)
(* Inputs.                                                                 *)
(***************************************************************************)
\* Anchors: the header row, and the first data row in two columns.
ImagePositions == {[row |-> 1, col |-> 1], [row |-> 2, col |-> 1], [row |-> 2, col |-> 2]}
ImageLists == UNION {[1..n -> ImagePositions] : n \in 0..MaxImages}
ImageColumnArgs == {<<1>>, <<2, 1>>}

\* A source sheet of MaxRow rows and mc columns; column 1 of the data rows
\* holds the values `barcodes` (a function of the row).
source_sheet(mc, barcodes) ==
    [rc \in Rows \X Cols |->
        IF rc[2] > mc THEN EmptyCell
        ELSE IF rc[2] = 1 /\ rc[1] \in DOMAIN barcodes THEN
            (IF barcodes[rc[1]] = NoneValue THEN EmptyCell
             ELSE SrcCell(barcodes[rc[1]]))
        ELSE SrcCell(StrValue(<<"x">>))]

InitDisk(sh) == [f \in FileNames |-> IF f = InputFile THEN FileOf(sh) ELSE NoFile]

InitCommon ==
    /\ total_processed = 0
    /\ success_count = 0
    /\ pc = "start"
    /\ exc = "none"
    /\ start_col = 0
    /\ todo = <<>>
    /\ pos = 0
    /\ image = BlankImage
    /\ tried = <<>>
    /\ ret = NoBarcode
    /\ barcode_data = <<>>
    /\ last_api_request_time = FALSE
    /\ query_results = <<>>
    /\ sheet = EmptySheet
    /\ events = <<>>

InitScanner ==
    /\ script \in ImageScanners
    /\ api_provider \in (IF script = "legacy" THEN {"mxnzp", "tianapi"} ELSE {script})
    /\ cv2 \in (IF script = "legacy" THEN {FALSE} ELSE BOOLEAN)
    /\ images \in ImageLists
    /\ IMAGE_COLUMNS \in ImageColumnArgs
    /\ RESULT_COLUMNS = <<>>
    /\ output_file = <<"out", ".xlsx">>
    /\ start_row = 2
    /\ \E mc \in {1, MaxSrcCol} : disk = InitDisk(source_sheet(mc, <<>>))
    /\ InitCommon
    /\ NoGuardian
    /\ NoService

(***************************************************************************)
(* The image scanners: main().                                             *)
(***************************************************************************)
\* image_positions filtered by column, for each column of IMAGE_COLUMNS in
\* turn: the order in which the nested loops reach the images.
RECURSIVE worklist(_, _)
worklist(cols, imgs) ==
    IF cols = <<>> THEN <<>>
    ELSE LET InCol(p) == p.col = Head(cols)
             positions == [i \in 1..Len(imgs) |->
                              [idx |-> i - 1, row |-> imgs[i].row, col |-> imgs[i].col]]
         IN SelectSeq(positions, InCol) \o worklist(Tail(cols), imgs)

\* shutil.copy2, load_workbook(EXCEL_FILE), max_col, start_col, image_positions
ScanStart ==
    /\ pc = "start"
    /\ script \in ImageScanners
    /\ disk' = copy2(disk, InputFile, output_file)
    /\ start_col' = start_col_of(disk[InputFile].cells)
    /\ todo' = worklist(IMAGE_COLUMNS, images)
    /\ pos' = 1
    /\ pc' = "loop"
    /\ UNCHANGED <<inputs, outside, oracle, decoder, exc, barcode_data, last_api_request_time,
                   query_results, sheet, events>>

\* A dict that kept the first value stored under a key.
record_first(results, row, result) == [r \in DOMAIN results \cup {row} |->
                                          IF r \in DOMAIN results THEN results[r] ELSE result]

\* query_results[row] = result
record(results, row, result) == [r \in DOMAIN results \cup {row} |->
                                    IF r = row THEN result ELSE results[r]]

\* The images a run meets: nothing to find, bytes that are no image, a
\* symbol found at once, a symbol found by a late attempt only, a
\* preparation that raises before the attempt that would find one.
RunImages ==
    {BlankImage, BadImage,
     ImageWith(Attempt("as_is", 0), HitDecode(B13), Attempt("cropped", 0), HitDecode(B8)),
     ImageWith(Attempt("cropped", 0), HitDecode(B13), Attempt("cropped", 0), HitDecode(B13)),
     ImageWith(Attempt("scaled", 8), RaisedDecode, Attempt("cropped", 0), HitDecode(B8))}

\* What img._data() comes to: the bytes of an image, or an exception.
ImageData == {[raises |-> b, image |-> i] : b \in BOOLEAN, i \in RunImages}

\* The next image: img._data() hands over the bytes, or raises and the row's
\* handler records the failure.
ScanRowBegin ==
    /\ pc = "loop"
    /\ script \in ImageScanners
    /\ pos <= Len(todo)
    /\ \E data \in answered("image", {d \in ImageData : d.raises => d.image = BlankImage}) :
         /\ oracle' = noted("image", data)
         /\ IF ~data.raises
            THEN /\ image' = data.image
                 /\ pc' = "decode"
                 /\ UNCHANGED <<query_results, pos, events>>
            ELSE /\ query_results' = record(query_results, todo[pos].row, RowErrorResult)
                 /\ events' = Append(events, FailedEvent(todo[pos].row))
                 /\ pos' = pos + 1
                 /\ pc' = "loop"
                 /\ image' = image
    /\ UNCHANGED <<inputs, outside, tried, ret, exc, start_col, todo, barcode_data,
                   last_api_request_time, sheet, disk>>

\* barcode_data, barcode_type = decode_barcode_from_image(img_data)
\* if barcode_data: ... else: query_results[row] = not found
ScanDecode ==
    /\ pc = "decode"
    /\ script \in ImageScanners
    /\ LET d == decode_barcode_from_image(script, cv2, image)
       IN /\ events' = Append(events, DecodedEvent(todo[pos].row, found_text(d.tried)))
          /\ IF d.ret.found /\ d.ret.value # <<>>
             THEN /\ barcode_data' = d.ret.value
                  /\ pc' = "query"
                  /\ UNCHANGED <<query_results, pos>>
             ELSE /\ query_results' = record(query_results, todo[pos].row, NotFoundResult)
                  /\ pos' = pos + 1
                  /\ pc' = "loop"
                  /\ UNCHANGED barcode_data
    /\ image' = BlankImage
    /\ UNCHANGED <<inputs, outside, oracle, tried, ret, exc, start_col, todo, last_api_request_time,
                   sheet, disk>>

\* query_product_info_*(barcode_data, ...), the result recorded for the row,
\* and the sleep that follows in barcode_scanner_mxnzp.
ScanQuery ==
    /\ pc = "query"
    /\ script \in ImageScanners
    /\ \E outcome \in answered("api", QueryOutcomes),
          elapsed \in (IF script = "gf" /\ last_api_request_time
                       THEN ElapsedChoices ELSE {0}) :
         LET row == todo[pos].row
             result == result_of(outcome, barcode_data)
         IN /\ oracle' = noted("api", outcome)
            /\ events' = events \o query_events(script, row, barcode_data,
                                                last_api_request_time, elapsed,
                                                max_requests(script), result.success)
            /\ query_results' = record(query_results, row,
                                       stored_result(script, result, barcode_data))
    /\ last_api_request_time' = (script = "gf")
    /\ pos' = pos + 1
    /\ pc' = "loop"
    /\ UNCHANGED <<inputs, outside, decoder, exc, start_col, todo, barcode_data, sheet, disk>>

\* After the loops: load_workbook(output_file), the headers, the results.
\* A value openpyxl cannot store raises outside every handler.
ScanWrite ==
    /\ pc = "loop"
    /\ script \in ImageScanners
    /\ pos > Len(todo)
    /\ IF all_writable(query_results)
       THEN /\ sheet' = write_results(
                           write_headers(disk[output_file].cells, start_col,
                                         field_headers(script, api_provider), 0),
                           DOMAIN query_results, start_col,
                           field_names(script, api_provider), query_results)
            /\ pc' = "save"
            /\ exc' = exc
       ELSE /\ pc' = "raised"
            /\ exc' = "Exception"
            /\ sheet' = sheet
    /\ UNCHANGED <<inputs, outside, oracle, decoder, start_col, todo, pos, barcode_data,
                   last_api_request_time, query_results, disk, events>>

(***************************************************************************)
(* barcode_scanner_gf: the statistics printed after the save.              *)
(***************************************************************************)
\* sum(1 for result in query_results.values()
\*     if result.get('success') and not result.get('barcode_only'))
full_success_count(results) ==
    Cardinality({r \in DOMAIN results :
                    results[r].success /\ ~results[r].barcode_only})

\* sum(1 for ... if result.get('success') and result.get('barcode_only'))
barcode_only_count(results) ==
    Cardinality({r \in DOMAIN results :
                    results[r].success /\ results[r].barcode_only})

failed_count_with_barcode_only(results) ==
    Cardinality({r \in DOMAIN results :
                    ~results[r].success \/ results[r].barcode_only})

\* sum(1 for result in query_results.values() if not result.get('success'))
failed_count(results) ==
    Cardinality({r \in DOMAIN results : ~results[r].success})

\* try: target_wb.save(output_file)
FinalSave ==
    /\ pc = "save"
    /\ \/ /\ disk' = [disk EXCEPT ![output_file] = FileOf(sheet)]
          /\ pc' = "done"
       \/ /\ disk' = disk
          /\ pc' = "fallback"
    /\ UNCHANGED <<inputs, outside, oracle, decoder, exc, start_col, todo, pos, barcode_data,
                   last_api_request_time, query_results, sheet, events>>

\* except: save(temp_output); close; remove(output_file); rename(temp_output,
\* output_file) - each can fail, and the inner handler only prints.
FallbackSave ==
    /\ pc = "fallback"
    /\ \E failure \in {"none", "save", "remove", "rename"} :
         disk' = CASE failure = "none" ->
                        [disk EXCEPT ![output_file] = FileOf(sheet)]
                   [] failure = "save" -> disk
                   [] failure = "remove" ->
                        [disk EXCEPT ![temp_output(output_file)] = FileOf(sheet)]
                   [] OTHER ->
                        [disk EXCEPT ![temp_output(output_file)] = FileOf(sheet),
                                     ![output_file] = NoFile]
    /\ pc' = "done"
    /\ UNCHANGED <<inputs, outside, oracle, decoder, exc, start_col, todo, pos, barcode_data,
                   last_api_request_time, query_results, sheet, events>>

ScannerNext ==
    \/ ScanStart
    \/ ScanRowBegin
    \/ ScanDecode
    \/ ScanQuery
    \/ ScanWrite
    \/ FinalSave
    \/ FallbackSave

(***************************************************************************)
(* barcode_scanner_alicloud.                                               *)
(***************************************************************************)
\* --barcode-cols
BARCODE_COLUMN == 1

\* validate_barcode: digits only, 8 to 14 of them.
validate_barcode(b) ==
    /\ b # <<>>
    /\ \A j \in 1..Len(b) : b[j] \in DigitChars
    /\ Len(b) >= 8
    /\ Len(b) <= 14

\* get_barcode_from_cell: str(), strip, drop the non-digits, validate.
\* <<>> stands for None.
get_barcode_from_cell(v) ==
    IF v.t = "none" THEN <<>>
    ELSE LET b == DigitsOnly(Strip(PyStr(v)))
         IN IF validate_barcode(b) THEN b ELSE <<>>

\* result_data of a queried row: the three cells it will be written as.
result_data(row_idx, barcode, result) ==
    [row_idx |-> row_idx,
     barcode |-> barcode,
     writable |-> result.data # "unwritable",
     ItemName |-> IF result.success THEN FieldCell(0, field_value(result, "ItemName"))
                  ELSE QueryFailedCell(barcode),
     ItemClassName |-> IF result.success
                       THEN FieldCell(1, field_value(result, "ItemClassName"))
                       ELSE BlankCell,
     gpcname |-> IF result.success THEN FieldCell(2, field_value(result, "gpcname"))
                 ELSE BlankCell]

\* for title, col_idx in new_columns: cell(row=1, column=col_idx, value=title)
\* new_columns holds the columns main computed: first_col, first_col + 1, ...
write_new_columns(sh, first_col) == write_headers(sh, first_col, AlicloudFields, 0)

\* for result in results: the three cells at last_col + 1, + 2, + 3
RECURSIVE write_result_list(_, _, _)
write_result_list(sh, results, last_col) ==
    IF results = <<>> THEN sh
    ELSE LET r == Head(results)
         IN write_result_list(
                SetCell(SetCell(SetCell(sh, r.row_idx, last_col + 1, r.ItemName),
                                r.row_idx, last_col + 2, r.ItemClassName),
                        r.row_idx, last_col + 3, r.gpcname),
                Tail(results), last_col)

\* The sheet write_results_to_file builds from the copy: last_col is read
\* from the copy before the headers are written.
written_sheet(copy, results, first_col) ==
    LET last_col == max_column(copy)
    IN write_result_list(write_new_columns(copy, first_col), results, last_col)

\* write_results_to_file(original_file, target, results, new_columns, ...):
\* the files afterwards and whether it raised.  `fails` is what goes wrong:
\* "none", "copy" (shutil.copy2) or "save" (workbook.save); a value openpyxl
\* cannot store raises between the two.
write_results_to_file(dsk, target, results, first_col, fails) ==
    LET copied == copy2(dsk, InputFile, target)
        storable == \A j \in 1..Len(results) : results[j].writable
    IN IF fails = "copy" THEN [raised |-> TRUE, disk |-> dsk]
       ELSE IF fails = "save" \/ ~storable THEN [raised |-> TRUE, disk |-> copied]
       ELSE [raised |-> FALSE,
             disk |-> [copied EXCEPT ![target] =
                          FileOf(written_sheet(copied[target].cells, results, first_col))]]

WriteFailures == {"none", "copy", "save"}

AliCellValues == {NoneValue, StrValue(B13), FloatValue(B13)}

InitAlicloud ==
    /\ script = "alicloud"
    /\ api_provider = "alicloud"
    /\ cv2 = FALSE
    /\ images = <<>>
    /\ IMAGE_COLUMNS = <<>>
    /\ RESULT_COLUMNS = <<>>
    /\ output_file \in OutputNames
    /\ start_row = 2
    /\ \E mc \in {1, MaxSrcCol}, cells \in [2..MaxRow -> AliCellValues] :
         disk = InitDisk(source_sheet(mc, cells))
    /\ InitCommon
    /\ NoGuardian
    /\ NoService

\* load_workbook(excel_file): last_col, max_row, new_columns; the pool.
AliStart ==
    /\ pc = "start"
    /\ script = "alicloud"
    /\ start_col' = start_col_of(disk[InputFile].cells)
    /\ pos' = start_row
    /\ pc' = "loop"
    /\ UNCHANGED <<inputs, outside, oracle, decoder, exc, todo, barcode_data, last_api_request_time,
                   query_results, sheet, disk, events>>

\* One row up to the query: a row without a valid barcode is skipped.
AliRow ==
    /\ pc = "loop"
    /\ script = "alicloud"
    /\ pos <= max_row(disk[InputFile].cells)
    /\ LET barcode == get_barcode_from_cell(
                          disk[InputFile].cells[<<pos, BARCODE_COLUMN>>].v)
       IN IF barcode = <<>>
          THEN /\ pos' = pos + 1
               /\ pc' = "loop"
               /\ UNCHANGED barcode_data
          ELSE /\ barcode_data' = barcode
               /\ pc' = "query"
               /\ UNCHANGED pos
    /\ UNCHANGED <<inputs, outside, oracle, decoder, exc, start_col, todo, last_api_request_time,
                   query_results, sheet, disk, events>>

\* What the provider answers for a row, and whether a statement between the
\* query and the append raises (the progress prints on a console that cannot
\* encode them).
AliAnswers ==
    {[outcome |-> o, raises |-> FALSE] : o \in QueryOutcomes \ {"exception"}}
    \cup {[outcome |-> "ok", raises |-> TRUE]}

\* query_product_info_alicloud, result_data, query_results.append, sleep(0.1).
\* When a statement between the query and the append raises, the row's
\* handler counts an error and the loop goes on: nothing is appended and
\* nothing sleeps.
AliQuery ==
    /\ pc = "query"
    /\ script = "alicloud"
    /\ \E answer \in answered("api", AliAnswers) :
         \E n \in request_counts(script, answer.outcome) :
            /\ oracle' = noted("api", answer)
            /\ IF ~answer.raises
               THEN /\ events' = events \o query_events(script, pos, barcode_data, FALSE,
                                                        0, n,
                                                        answer.outcome \in {"ok", "unwritable"})
                    /\ query_results' =
                           Append(query_results,
                                  result_data(pos, barcode_data,
                                              result_of(answer.outcome, barcode_data)))
               ELSE /\ events' = events \o call_events(script, pos, barcode_data, FALSE,
                                                       0, n, TRUE)
                                         \o <<FailedEvent(pos)>>
                    /\ UNCHANGED query_results
    /\ pos' = pos + 1
    /\ pc' = "loop"
    /\ UNCHANGED <<inputs, outside, decoder, exc, start_col, todo, barcode_data,
                   last_api_request_time, sheet, disk>>

\* After the loop: write_results_to_file(excel_file, output_file, ...).  When
\* it raises, "except Exception" tries the backup file and calls sys.exit(1).
AliWrite ==
    /\ pc = "loop"
    /\ script = "alicloud"
    /\ pos > max_row(disk[InputFile].cells)
    /\ \E fails \in WriteFailures, backup_fails \in WriteFailures :
         LET w == write_results_to_file(disk, output_file, query_results, start_col, fails)
             b == write_results_to_file(w.disk, backup_file(output_file),
                                        query_results, start_col, backup_fails)
         IN IF ~w.raised
            THEN /\ disk' = w.disk
                 /\ pc' = "done"
                 /\ exc' = exc
            ELSE /\ disk' = IF query_results # <<>> THEN b.disk ELSE w.disk
                 /\ pc' = "raised"
                 /\ exc' = "SystemExit"
    /\ UNCHANGED <<inputs, outside, oracle, decoder, start_col, todo, pos, barcode_data,
                   last_api_request_time, query_results, sheet, events>>

\* KeyboardInterrupt in the row loop: the handler writes what is buffered to
\* the interrupted file (a failure of that write is caught) and re-raises.
AliInterrupt ==
    /\ pc \in {"loop", "query"}
    /\ script = "alicloud"
    /\ pos <= max_row(disk[InputFile].cells)
    /\ \E fails \in WriteFailures :
         disk' = IF query_results # <<>>
                 THEN write_results_to_file(disk, interrupted_file(output_file),
                                            query_results, start_col, fails).disk
                 ELSE disk
    /\ pc' = "raised"
    /\ exc' = "KeyboardInterrupt"
    /\ UNCHANGED <<inputs, outside, oracle, decoder, start_col, todo, pos, barcode_data,
                   last_api_request_time, query_results, sheet, events>>

AlicloudNext ==
    \/ AliStart
    \/ AliRow
    \/ AliQuery
    \/ AliWrite
    \/ AliInterrupt

(***************************************************************************)
(* product_info_query.                                                     *)
(***************************************************************************)
\* '识别失败'
RecognitionFailed == <<"recognition_failed">>

skipped_when_blank(v) ==
    \/ ~Truthy(v)
    \/ Strip(PyStr(v)) = <<>>

\* "if not barcode_data or str(barcode_data).strip() == '' or ... == '识别失败'"
skipped(v) ==
    \/ ~Truthy(v)
    \/ Strip(PyStr(v)) = <<>>
    \/ Strip(PyStr(v)) = RecognitionFailed

\* barcode_data = str(barcode_data).strip(); format_barcode(barcode_data)
formatted_barcode(v) == format_barcode_piq(StrValue(Strip(PyStr(v))))

PiqCellValues ==
    {NoneValue, StrValue(B13), IntValue(B13), FloatValue(B13), StrValue(B8),
     StrValue(<<" ">> \o B13 \o <<" ">>), StrValue(<<" ">>),
     StrValue(RecognitionFailed)}

InitPiq ==
    /\ script = "piq"
    /\ api_provider = "gds"
    /\ cv2 = FALSE
    /\ images = <<>>
    /\ IMAGE_COLUMNS = <<>>
    /\ RESULT_COLUMNS = <<>>
    /\ output_file = <<"out", ".xlsx">>
    /\ start_row = 2
    /\ \E mc \in {1, MaxSrcCol}, cells \in [2..MaxRow -> PiqCellValues] :
         disk = InitDisk(source_sheet(mc, cells))
    /\ InitCommon
    /\ NoGuardian
    /\ NoService

\* shutil.copy2, load_workbook(output_file), max_col, start_col, the headers
PiqStart ==
    /\ pc = "start"
    /\ script = "piq"
    /\ LET copied == copy2(disk, InputFile, output_file)
           wb == copied[output_file].cells
       IN /\ disk' = copied
          /\ start_col' = start_col_of(wb)
          /\ sheet' = write_headers(wb, start_col_of(wb),
                                    field_headers(script, api_provider), 0)
    /\ pos' = start_row
    /\ pc' = "loop"
    /\ UNCHANGED <<inputs, outside, oracle, decoder, exc, todo, barcode_data, last_api_request_time,
                   query_results, events>>

\* Whether wb.save succeeds in the row's try block, and in its handler.
Saves == {[saves |-> a, saves_again |-> b] : a \in BOOLEAN, b \in BOOLEAN}

\* What the provider answers for a row, and how the saves of the row go.
PiqAnswers == {[outcome |-> o, saves |-> s] : o \in QueryOutcomes, s \in Saves}

\* wb.save(output_file) at the end of a row's try block.  When it raises, the
\* row's handler writes its marker over the row and saves again, outside
\* every handler.
save_row_once(sh, row, c0, n, dsk, out, saves, saves_again) ==
    LET marked == write_marker(sh, row, c0, n, ProcessErrorCell)
    IN IF saves
       THEN [sheet |-> sh, disk |-> [dsk EXCEPT ![out] = FileOf(sh)],
             failed |-> FALSE, raised |-> FALSE]
       ELSE [sheet |-> marked, disk |-> dsk, failed |-> TRUE, raised |-> FALSE]

save_row(sh, row, c0, n, dsk, out, saves, saves_again) ==
    LET marked == write_marker(sh, row, c0, n, ProcessErrorCell)
    IN IF saves
       THEN [sheet |-> sh, disk |-> [dsk EXCEPT ![out] = FileOf(sh)],
             failed |-> FALSE, raised |-> FALSE]
       ELSE IF saves_again
       THEN [sheet |-> marked, disk |-> [dsk EXCEPT ![out] = FileOf(marked)],
             failed |-> TRUE, raised |-> FALSE]
       ELSE [sheet |-> marked, disk |-> dsk, failed |-> TRUE, raised |-> TRUE]

\* The state after a row's try block and, when that raised, its handler;
\* "total_processed += 1" follows the save in both.
PiqRowEnd(after, new_events) ==
    /\ sheet' = after.sheet
    /\ disk' = after.disk
    /\ events' = events \o new_events
                        \o (IF after.failed THEN <<FailedEvent(pos)>> ELSE <<>>)
    /\ IF after.raised
       THEN /\ pc' = "raised"
            /\ exc' = "Exception"
            /\ pos' = pos
            /\ total_processed' = total_processed
       ELSE /\ pc' = "loop"
            /\ exc' = exc
            /\ pos' = pos + 1
            /\ total_processed' = total_processed + 1

\* One row up to the query: a blank or unrecognised barcode is marked as
\* skipped and saved; any other value is formatted.
PiqRow ==
    /\ pc = "loop"
    /\ script = "piq"
    /\ pos <= max_row(sheet)
    /\ LET v == sheet[<<pos, BARCODE_COLUMN>>].v
           n == Len(field_names(script, api_provider))
       IN IF skipped(v)
          THEN /\ \E s \in answered("save", Saves) :
                    /\ PiqRowEnd(save_row(write_marker(sheet, pos, start_col, n, SkipCell),
                                          pos, start_col, n, disk, output_file,
                                          s.saves, s.saves_again),
                                 <<>>)
                    /\ oracle' = noted("save", s)
               /\ UNCHANGED barcode_data
          ELSE /\ barcode_data' = formatted_barcode(v)
               /\ pc' = "query"
               /\ UNCHANGED <<exc, pos, sheet, disk, events, oracle, total_processed>>
    /\ UNCHANGED <<inputs, rerun, guardian, service, success_count, decoder, start_col,
                   todo, last_api_request_time, query_results>>

\* query_product_info_gds(formatted_barcode, ...), the result written to the
\* row, "success_count += 1" once the fields of a success are written,
\* wb.save.  A value openpyxl cannot store raises in the try block like a
\* failing save does, before the count.
PiqQuery ==
    /\ pc = "query"
    /\ script = "piq"
    /\ \E outcome \in QueryOutcomes, s \in Saves :
         LET result == result_of(outcome, barcode_data)
             names == field_names(script, api_provider)
             written == IF result.data = "unwritable" THEN sheet
                        ELSE write_result(sheet, pos, start_col, names, result)
         IN /\ [outcome |-> outcome, saves |-> s] \in answered("api", PiqAnswers)
            /\ oracle' = noted("api", [outcome |-> outcome, saves |-> s])
            /\ PiqRowEnd(save_row(written, pos, start_col, Len(names), disk, output_file,
                                  s.saves /\ result.data # "unwritable", s.saves_again),
                         query_events(script, pos, barcode_data, last_api_request_time,
                                      0, max_requests(script), result.success))
            /\ query_results' = record(query_results, pos, result)
            /\ success_count' = IF result.success /\ result.data # "unwritable"
                                THEN success_count + 1
                                ELSE success_count
    /\ last_api_request_time' = TRUE
    /\ UNCHANGED <<inputs, rerun, guardian, service, decoder, start_col, todo,
                   barcode_data>>

\* After the loop: the statistics, then the final save.
PiqFinish ==
    /\ pc = "loop"
    /\ script = "piq"
    /\ pos > max_row(sheet)
    /\ pc' = "save"
    /\ UNCHANGED <<inputs, outside, oracle, decoder, exc, start_col, todo, pos, barcode_data,
                   last_api_request_time, query_results, sheet, disk, events>>

\* KeyboardInterrupt in the row loop: "except Exception" does not catch it, it
\* ends main() where it is.
PiqInterrupt ==
    /\ pc \in {"loop", "query"}
    /\ script = "piq"
    /\ pos <= max_row(sheet)
    /\ pc' = "raised"
    /\ exc' = "KeyboardInterrupt"
    /\ UNCHANGED <<inputs, outside, oracle, decoder, start_col, todo, pos,
                   barcode_data, last_api_request_time, query_results, sheet, disk,
                   events>>

PiqNext ==
    \/ PiqStart
    \/ PiqRow
    \/ PiqQuery
    \/ PiqFinish
    \/ PiqInterrupt

(***************************************************************************)
(* simple_ocr.                                                             *)
(***************************************************************************)
\* --image-cols and --result-cols: the defaults, two columns each, two image
\* columns with one result column, and lists of different lengths.
OcrColumnArgs ==
    {[image_cols |-> <<1>>, result_cols |-> <<2>>],
     [image_cols |-> <<1, 2>>, result_cols |-> <<3, 4>>],
     [image_cols |-> <<2, 1>>, result_cols |-> <<3, 3>>],
     [image_cols |-> <<1>>, result_cols |-> <<2, 3>>],
     [image_cols |-> <<1, 2>>, result_cols |-> <<3>>]}

\* The texts the service recognises.
OcrTexts == {<<"t">>, <<"u">>}

\* What the processing of one image can come to: a recognised text, an
\* answer without text (an error code of the service, or an empty text), or
\* an exception (the image, the request, the answer's JSON).
OcrOutcomes ==
    {[outcome |-> "text", text |-> t] : t \in OcrTexts}
    \cup {[outcome |-> o, text |-> <<>>] : o \in {"no_text", "raises"}}

\* recognized_text
recognized_text(answer) ==
    IF answer.outcome = "text" THEN StrValue(answer.text) ELSE StrValue(<<>>)

\* The service answered for an image of the row: b is recognized_text, d the
\* result column it is kept for.
RecognizedEvent(row, col, text) ==
    [e |-> "recognized", row |-> row, b |-> text, d |-> col, success |-> text # <<>>]

InitOcr ==
    /\ script = "ocr"
    /\ api_provider = "ocr"
    /\ cv2 = FALSE
    /\ images \in ImageLists
    /\ \E a \in OcrColumnArgs :
          /\ IMAGE_COLUMNS = a.image_cols
          /\ RESULT_COLUMNS = a.result_cols
    /\ output_file = <<"out", ".xlsx">>
    /\ start_row = 1
    /\ \E mc \in {1, MaxSrcCol} : disk = InitDisk(source_sheet(mc, <<>>))
    /\ InitCommon
    /\ NoGuardian
    /\ NoService

RECURSIVE ocr_worklist_first_result(_, _, _, _)
ocr_worklist_first_result(image_cols, result_cols, imgs, i) ==
    IF i >= Len(image_cols) THEN <<>>
    ELSE LET InCol(p) == p.col = image_cols[i + 1]
             positions == [j \in 1..Len(imgs) |->
                              [idx |-> j - 1, row |-> imgs[j].row, col |-> imgs[j].col,
                               result_col |-> result_cols[1]]]
         IN SelectSeq(positions, InCol)
            \o ocr_worklist_first_result(image_cols, result_cols, imgs, i + 1)

\* for i, image_col in enumerate(IMAGE_COLUMNS): result_col =
\* RESULT_COLUMNS[i]; column_images: the images the nested loops reach, in
\* order, each with its result column.
RECURSIVE ocr_worklist(_, _, _, _)
ocr_worklist(image_cols, result_cols, imgs, i) ==
    IF i >= Len(image_cols) THEN <<>>
    ELSE LET InCol(p) == p.col = image_cols[i + 1]
             positions == [j \in 1..Len(imgs) |->
                              [idx |-> j - 1, row |-> imgs[j].row, col |-> imgs[j].col,
                               result_col |-> result_cols[i + 1]]]
         IN SelectSeq(positions, InCol)
            \o ocr_worklist(image_cols, result_cols, imgs, i + 1)

\* The check of the two lists' lengths, which ends main(); then
\* shutil.copy2, load_workbook(EXCEL_FILE), image_positions.
OcrStart ==
    /\ pc = "start"
    /\ script = "ocr"
    /\ IF Len(IMAGE_COLUMNS) # Len(RESULT_COLUMNS)
       THEN /\ pc' = "done"
            /\ UNCHANGED <<disk, todo, pos>>
       ELSE /\ disk' = copy2(disk, InputFile, output_file)
            /\ todo' = ocr_worklist(IMAGE_COLUMNS, RESULT_COLUMNS, images, 0)
            /\ pos' = 1
            /\ pc' = "loop"
    /\ UNCHANGED <<inputs, outside, oracle, decoder, exc, start_col, barcode_data,
                   last_api_request_time, query_results, sheet, events>>

\* One image: the request to the OCR service and ocr_results[(row,
\* result_col)] = recognized_text; an exception is printed and nothing is
\* recorded.
OcrRow ==
    /\ pc = "loop"
    /\ script = "ocr"
    /\ pos <= Len(todo)
    /\ \E answer \in OcrOutcomes :
         LET row == todo[pos].row
             col == todo[pos].result_col
         IN IF answer.outcome = "raises"
            THEN /\ events' = Append(events, FailedEvent(row))
                 /\ UNCHANGED query_results
            ELSE /\ events' = events \o <<CallEvent(row, <<>>, 0, answer.outcome = "text"),
                                          HttpEvent(row, <<>>),
                                          RecognizedEvent(row, col, answer.text)>>
                 /\ query_results' = record(query_results, <<row, col>>,
                                            recognized_text(answer))
    /\ pos' = pos + 1
    /\ UNCHANGED <<inputs, outside, oracle, decoder, pc, exc, start_col, todo,
                   barcode_data, last_api_request_time, sheet, disk>>

\* for (row, col), text in ocr_results.items(): cell(row, col, value=text)
RECURSIVE write_texts(_, _, _)
write_texts(sh, keys, results) ==
    IF keys = {} THEN sh
    ELSE LET k == CHOOSE x \in keys : TRUE
         IN write_texts(SetCell(sh, k[1], k[2], cell_of(0, results[k])),
                        keys \ {k}, results)

\* After the loops: load_workbook(output_file) and the texts.
OcrWrite ==
    /\ pc = "loop"
    /\ script = "ocr"
    /\ pos > Len(todo)
    /\ sheet' = write_texts(disk[output_file].cells, DOMAIN query_results,
                            query_results)
    /\ pc' = "save"
    /\ UNCHANGED <<inputs, outside, oracle, decoder, exc, start_col, todo, pos,
                   barcode_data, last_api_request_time, query_results, disk, events>>

OcrNext ==
    \/ OcrStart
    \/ OcrRow
    \/ OcrWrite

Init ==
    /\ InitScanner \/ InitAlicloud \/ InitPiq \/ InitOcr
    /\ SingleRun

Next == ScannerNext \/ AlicloudNext \/ PiqNext \/ OcrNext

Spec == Init /\ [][Next]_vars

(***************************************************************************)
(* A script run twice on the same files: with the same arguments after    *)
(* the first run finished or was interrupted, or - product_info_query -    *)
(* with --start-row set to the row at which the first run was interrupted. *)
(***************************************************************************)
RerunScripts == {"tianapi", "alicloud", "piq"}

\* The barcode cells of the sheets that are run twice.
RerunCellValues == AliCellValues \cup {StrValue(RecognitionFailed)}

InitRerun ==
    /\ InitScanner \/ InitAlicloud \/ InitPiq
    /\ script \in RerunScripts
    /\ ~cv2
    /\ \A r \in 2..MaxRow : script \in {"alicloud", "piq"} =>
           disk[InputFile].cells[<<r, 1>>].v \in RerunCellValues
    /\ run = 1
    /\ first = NoRun
    /\ oracle = NoAnswers

\* The workbook a run wrote its results to.
written_workbook == IF script = "alicloud" THEN disk[output_file].cells ELSE sheet

\* The command line again: main() starts anew, the files are as the first
\* run left them.  With the same arguments the images, the provider and the
\* file system answer as they did.
Rerun ==
    /\ run = 1
    /\ \/ pc = "done"
       \/ pc = "raised" /\ exc = "KeyboardInterrupt"
    /\ \E k \in {start_row} \cup (IF script = "piq" /\ pc = "raised" THEN {pos} ELSE {}) :
         /\ start_row' = k
         /\ oracle' = IF k = start_row THEN oracle ELSE NoAnswers
    /\ run' = 2
    /\ first' = [ended |-> pc, start_row |-> start_row, start_col |-> start_col,
                 cells |-> written_workbook, file |-> disk[output_file]]
    /\ pc' = "start"
    /\ exc' = "none"
    /\ start_col' = 0
    /\ todo' = <<>>
    /\ pos' = 0
    /\ image' = BlankImage
    /\ tried' = <<>>
    /\ ret' = NoBarcode
    /\ barcode_data' = <<>>
    /\ last_api_request_time' = FALSE
    /\ query_results' = <<>>
    /\ sheet' = EmptySheet
    /\ events' = <<>>
    /\ UNCHANGED <<script, api_provider, cv2, images, IMAGE_COLUMNS, RESULT_COLUMNS,
                   output_file, disk, guardian, service>>
    /\ total_processed' = 0
    /\ success_count' = 0

NextRerun == ScannerNext \/ AlicloudNext \/ PiqNext \/ Rerun

SpecRerun == InitRerun /\ [][NextRerun]_vars

(***************************************************************************)
(* decode_barcode_from_image on its own: any image, one call.              *)
(***************************************************************************)
\* Images with up to two prepared versions in which pyzbar finds a symbol
\* or raises.
DecodeImages ==
    {BlankImage, BadImage}
    \cup {ImageWith(a1, o1, a2, o2) :
             a1 \in AllAttempts, o1 \in {HitDecode(B13), RaisedDecode},
             a2 \in AllAttempts, o2 \in {EmptyDecode, HitDecode(B8), RaisedDecode}}

InitDecode ==
    /\ script \in EnhancedScanners
    /\ api_provider = script
    /\ cv2 \in BOOLEAN
    /\ images = <<>>
    /\ IMAGE_COLUMNS = <<1>>
    /\ RESULT_COLUMNS = <<>>
    /\ output_file = <<"out", ".xlsx">>
    /\ start_row = 2
    /\ disk = InitDisk(source_sheet(1, <<>>))
    /\ total_processed = 0
    /\ success_count = 0
    /\ pc = "decode_call"
    /\ exc = "none"
    /\ start_col = 0
    /\ todo = <<>>
    /\ pos = 0
    /\ image \in DecodeImages
    /\ tried = <<>>
    /\ ret = NoBarcode
    /\ barcode_data = <<>>
    /\ last_api_request_time = FALSE
    /\ query_results = <<>>
    /\ sheet = EmptySheet
    /\ events = <<>>
    /\ SingleRun
    /\ NoGuardian
    /\ NoService

\* barcode_data, barcode_type = decode_barcode_from_image(img_data)
DecodeCall ==
    /\ pc = "decode_call"
    /\ LET d == decode_barcode_from_image(script, cv2, image)
       IN /\ tried' = d.tried
          /\ ret' = d.ret
    /\ pc' = "returned"
    /\ UNCHANGED <<inputs, outside, oracle, image, exc, start_col, todo, pos, barcode_data,
                   last_api_request_time, query_results, sheet, disk, events>>

NextDecode == DecodeCall

SpecDecode == InitDecode /\ [][NextDecode]_vars

(***************************************************************************)
(* HeartGuardian: the configuration, the creator thread, the main loop.    *)
(***************************************************************************)
\* No script runs.
NoScript ==
    /\ script = "none"
    /\ api_provider = "none"
    /\ cv2 = FALSE
    /\ images = <<>>
    /\ IMAGE_COLUMNS = <<>>
    /\ RESULT_COLUMNS = <<>>
    /\ output_file = <<"out", ".xlsx">>
    /\ start_row = 2
    /\ disk = InitDisk(source_sheet(1, <<>>))
    /\ InitCommon
    /\ SingleRun

InitConfigured(answers) ==
    /\ api_config \in answers
    /\ tips = DEFAULT_TIPS
    /\ bg_colors = DEFAULT_BG_COLORS
    /\ MAX_WINDOWS = DEFAULT_MAX_WINDOWS
    /\ config_raised = FALSE
    /\ all_windows = <<>>
    /\ running = TRUE
    /\ thread_stop = FALSE
    /\ window_queue = 0
    /\ window_count = 0
    /\ windows = [w \in WindowIds |-> NoWindow]
    /\ quit = FALSE
    /\ gpc = "config"
    /\ tpc = "idle"
    /\ NoService
    /\ NoScript

\* tips, bg_colors, MAX_WINDOWS = get_config_from_api(); then the main block
\* up to root.mainloop(): the root window, the creator thread.
GetConfig ==
    /\ gpc = "config"
    /\ LET c == get_config_from_api(api_config)
       IN /\ tips' = c.tips
          /\ bg_colors' = c.bg_colors
          /\ MAX_WINDOWS' = c.max_windows
          /\ config_raised' = c.raised
          /\ gpc' = IF c.raised THEN "exited" ELSE "mainloop"
          /\ tpc' = IF c.raised THEN "idle" ELSE "check"
    /\ UNCHANGED <<api_config, all_windows, running, thread_stop, window_queue,
                   window_count, windows, quit, scripts, service>>

\* window_creation_task: "while window_count < MAX_WINDOWS and running"
CreatorCheck ==
    /\ tpc = "check"
    /\ gpc # "exited"
    /\ IF window_count < MAX_WINDOWS /\ running
       THEN /\ window_count < MaxWindows
            /\ tpc' = "put"
       ELSE tpc' = "done"
    /\ UNCHANGED <<api_config, tips, bg_colors, MAX_WINDOWS, config_raised,
                   all_windows, running, thread_stop, window_queue, window_count,
                   windows, quit, gpc, scripts, service>>

\* window_queue.put(1); window_count += 1; time.sleep(0.1)
CreatorPut ==
    /\ tpc = "put"
    /\ gpc # "exited"
    /\ window_queue' = window_queue + 1
    /\ window_count' = window_count + 1
    /\ tpc' = "check"
    /\ UNCHANGED <<api_config, tips, bg_colors, MAX_WINDOWS, config_raised,
                   all_windows, running, thread_stop, windows, quit, gpc, scripts,
                   service>>

\* process_window_queue with a request waiting: create_warm_tip_window.
\* tk.Toplevel can raise, and nothing is created; random.choice raises on an
\* empty list, and the window is left without its bindings.  (While the main
\* loop runs, running is true: only close_all_windows clears it, and that
\* ends the loop.)
ProcessQueue ==
    /\ gpc = "mainloop"
    /\ ~quit
    /\ running
    /\ window_queue > 0
    /\ window_queue' = window_queue - 1
    /\ \E made \in BOOLEAN :
         IF made
         THEN LET w == Cardinality(created(windows)) + 1
              IN /\ windows' = [windows EXCEPT
                                   ![w] = Toplevel(tips # <<>> /\ bg_colors # <<>>)]
                 /\ all_windows' = Append(all_windows, w)
         ELSE UNCHANGED <<windows, all_windows>>
    /\ UNCHANGED <<api_config, tips, bg_colors, MAX_WINDOWS, config_raised, running,
                   thread_stop, window_count, quit, gpc, tpc, scripts, service>>

\* <BackSpace> in window w: window.destroy()
BackSpace(w) ==
    /\ gpc = "mainloop"
    /\ ~quit
    /\ windows[w].state = "alive"
    /\ windows[w].bound
    /\ windows' = destroy(windows, w)
    /\ UNCHANGED <<api_config, tips, bg_colors, MAX_WINDOWS, config_raised,
                   all_windows, running, thread_stop, window_queue, window_count,
                   quit, gpc, tpc, scripts, service>>

\* The close button of window w (WM_DELETE_WINDOW): on_window_close takes the
\* window out of all_windows and leaves it open; a window without the
\* protocol is destroyed by Tk.
CloseButton(w) ==
    /\ gpc = "mainloop"
    /\ ~quit
    /\ windows[w].state = "alive"
    /\ IF windows[w].bound
       THEN /\ all_windows' = remove(all_windows, w)
            /\ windows' = [windows EXCEPT ![w].unlisted = TRUE]
       ELSE /\ windows' = destroy(windows, w)
            /\ all_windows' = all_windows
    /\ UNCHANGED <<api_config, tips, bg_colors, MAX_WINDOWS, config_raised, running,
                   thread_stop, window_queue, window_count, quit, gpc, tpc, scripts,
                   service>>

\* close_all_windows()
close_all_windows ==
    /\ running' = FALSE
    /\ thread_stop' = TRUE
    /\ windows' = destroy_all(windows, all_windows)
    /\ all_windows' = <<>>
    /\ quit' = TRUE

\* <Escape> in window w
Escape(w) ==
    /\ gpc = "mainloop"
    /\ ~quit
    /\ windows[w].state = "alive"
    /\ windows[w].bound
    /\ close_all_windows
    /\ UNCHANGED <<api_config, tips, bg_colors, MAX_WINDOWS, config_raised,
                   window_queue, window_count, gpc, tpc, scripts, service>>

\* root.mainloop() returns after root.quit(), or KeyboardInterrupt ends it.
MainLoopEnds ==
    /\ gpc = "mainloop"
    /\ gpc' = "finally"
    /\ UNCHANGED <<api_config, tips, bg_colors, MAX_WINDOWS, config_raised,
                   all_windows, running, thread_stop, window_queue, window_count,
                   windows, quit, tpc, scripts, service>>

\* finally: close_all_windows(); the program ends.
Finally ==
    /\ gpc = "finally"
    /\ close_all_windows
    /\ gpc' = "exited"
    /\ UNCHANGED <<api_config, tips, bg_colors, MAX_WINDOWS, config_raised,
                   window_queue, window_count, tpc, scripts, service>>

InitGuardian == InitConfigured(GuardianAnswers)

NextGuardian ==
    \/ GetConfig
    \/ CreatorCheck
    \/ CreatorPut
    \/ ProcessQueue
    \/ \E w \in WindowIds : BackSpace(w)
    \/ \E w \in WindowIds : CloseButton(w)
    \/ \E w \in WindowIds : Escape(w)
    \/ MainLoopEnds
    \/ Finally

SpecGuardian == InitGuardian /\ [][NextGuardian]_vars

\* get_config_from_api on its own: any answer, one call.
InitConfig == InitConfigured(ConfigAnswers)

NextConfig == GetConfig

SpecConfig == InitConfig /\ [][NextConfig]_vars

(***************************************************************************)
(* The OCR service: one request.                                           *)
(***************************************************************************)
InitService ==
    /\ request \in Requests
    /\ response = NoResponse
    /\ NoGuardian
    /\ NoScript

\* POST /recognize
RecognizeImage ==
    /\ request # NoRequest
    /\ response = NoResponse
    /\ \E processing_time \in ProcessingTimes :
         response' = recognize_image(request, processing_time)
    /\ UNCHANGED <<request, scripts, guardian>>

NextService == RecognizeImage

SpecService == InitService /\ [][NextService]_vars

(***************************************************************************)
(* C1.                                                                     *)
(***************************************************************************)
\* The strategies in the order the specification lists them.
C1_Order ==
    <<"as_is", "grayscale", "contrast", "sharpened", "blurred", "brightness",
      "rotated", "scaled", "cropped", "adaptive_threshold", "morphology">>

C1_Index(g) == CHOOSE k \in 1..Len(C1_Order) : C1_Order[k] = g

\* The strategies a run has: the last two need OpenCV.
C1_Applicable == IF cv2 THEN 1..Len(C1_Order) ELSE 1..(Len(C1_Order) - 2)

C1_TriedIndexes == {C1_Index(tried[j].attempt.group) : j \in 1..Len(tried)}

\* Attempts follow the listed order, none is made twice, every strategy
\* before an attempted one was attempted, only the last attempt can have
\* found a symbol or raised.
C1_OrderKept ==
    /\ \A i, j \in 1..Len(tried) :
          i < j =>
             /\ C1_Index(tried[i].attempt.group) <= C1_Index(tried[j].attempt.group)
             /\ tried[i].attempt # tried[j].attempt
             /\ tried[i].outcome.res = "empty"
    /\ C1_TriedIndexes \subseteq C1_Applicable
    /\ \A k \in C1_TriedIndexes : \A m \in 1..k : m \in C1_TriedIndexes

C1_Last == tried[Len(tried)].outcome

\* C1 (as amended): decode_barcode_from_image attempts the strategies in the
\* listed order, none twice and none after the first that finds a symbol.  It
\* returns that strategy's symbology and its value - in barcode_scanner_gf
\* the value with a leading "0" when it has 13 characters.  It returns the
\* not-found signal when the bytes are no image, when a strategy raises, or
\* when every strategy (the OpenCV ones only with OpenCV) found nothing.
C1_DecodeOrder ==
    pc = "returned" =>
       /\ C1_OrderKept
       /\ IF tried # <<>> /\ C1_Last.res = "hit"
          THEN /\ ret.found
               /\ ret.type = C1_Last.type
               /\ ret.value = IF script = "gf" /\ Len(C1_Last.value) = 13
                              THEN <<"0">> \o C1_Last.value
                              ELSE C1_Last.value
          ELSE /\ ret = NoBarcode
               /\ \/ ~image.opens /\ tried = <<>>
                  \/ tried # <<>> /\ C1_Last.res = "raised"
                  \/ C1_TriedIndexes = C1_Applicable

\* A 13-digit symbol found by the last strategy of barcode_scanner_gf, after
\* every other strategy found nothing.
C1_Witness ==
    /\ pc = "returned"
    /\ script = "gf"
    /\ tried # <<>>
    /\ C1_Last = HitDecode(B13)
    /\ tried[Len(tried)].attempt.group = "morphology"
    /\ ret.value = <<"0">> \o B13

\* C1 (as stated): the order is kept and the value returned is the value the
\* first successful strategy decoded.
C1_ReturnsDecodedValue ==
    pc = "returned" =>
       /\ C1_OrderKept
       /\ (tried # <<>> /\ C1_Last.res = "hit") =>
             /\ ret.found
             /\ ret.value = C1_Last.value
             /\ ret.type = C1_Last.type

(***************************************************************************)
(* Reading a run for the claims below.                                     *)
(***************************************************************************)
EventIndexes == 1..Len(events)
IndexesOf(kind) == {j \in EventIndexes : events[j].e = kind}

\* The events that end the processing of an image or a cell of row r.
RowOutcomeIndexes(r) ==
    {j \in EventIndexes : events[j].row = r /\ events[j].e \in {"call", "decoded", "failed"}}

\* The last thing that happened to row r is a lookup call that failed.
LookupFailed(r) ==
    /\ RowOutcomeIndexes(r) # {}
    /\ LET last == events[MaxOf(RowOutcomeIndexes(r))]
       IN last.e = "call" /\ ~last.success

\* The workbook the results were written to, once they are written.
OutputWritten ==
    CASE script \in ImageScanners \cup {"ocr"} -> pc \in {"save", "fallback", "done"}
      [] script = "alicloud" -> pc = "done"
      [] OTHER -> pc \in {"loop", "query", "save", "fallback", "done"}

OutputSheet == IF script = "alicloud" THEN disk[output_file].cells ELSE sheet

FieldCount == Len(field_names(script, api_provider))

\* The appended columns of a row after the first are all ''.
RestBlank(r, from) ==
    \A i \in from..(FieldCount - 1) : OutputSheet[<<r, start_col + i>>].kind = "blank"

(***************************************************************************)
(* C2.                                                                     *)
(***************************************************************************)
\* Every image of row r was decoded, and none held a barcode.
C2_Undecodable(r) ==
    /\ script \in ImageScanners
    /\ \E j \in IndexesOf("decoded") : events[j].row = r
    /\ \A j \in IndexesOf("decoded") : events[j].row = r => events[j].b = <<>>
    /\ \A j \in IndexesOf("failed") : events[j].row # r

\* C2: a row whose images hold no decodable barcode gets the not-found
\* failure as its result, no lookup is called and no request sent for it,
\* and once the results are written its first appended cell holds the error
\* string and its other appended cells are ''.
C2_NotFoundRow ==
    \A r \in Rows :
       C2_Undecodable(r) =>
          /\ r \in DOMAIN query_results
          /\ ~query_results[r].success
          /\ query_results[r].error = "no_barcode_recognized"
          /\ \A j \in IndexesOf("call") \cup IndexesOf("http") : events[j].row # r
          /\ OutputWritten =>
                /\ OutputSheet[<<r, start_col>>].kind = "error"
                /\ OutputSheet[<<r, start_col>>].msg = "no_barcode_recognized"
                /\ RestBlank(r, 1)

\* A finished run of barcode_scanner_gf with an undecodable row in the saved
\* file, next to a row that was looked up.
C2_Witness ==
    /\ pc = "done"
    /\ script = "gf"
    /\ IndexesOf("http") # {}
    /\ \E r \in Rows :
          /\ C2_Undecodable(r)
          /\ disk[output_file].cells[<<r, start_col>>].kind = "error"
          /\ disk[output_file].cells[<<r, start_col + 1>>].kind = "blank"

(***************************************************************************)
(* C3.                                                                     *)
(***************************************************************************)
\* The padding rule.
C3_Padded(b) == IF Len(b) = 13 THEN <<"0">> \o b ELSE b

\* The barcode a cell holds: its text without surrounding blanks, or the
\* digits of its number.
C3_CellBarcode(v) == IF v.t = "str" THEN Strip(v.s) ELSE v.s

\* The text decoded from the image the request at index j is sent for.
C3_DecodedFor(j) ==
    events[MaxOf({i \in IndexesOf("decoded") : i < j})].b

\* C3: in barcode_scanner_gf and product_info_query every request carries
\* the barcode read for its row - decoded from the image by whichever
\* strategy, or held by the cell as whichever type - with a leading "0" when
\* it has 13 digits and unchanged otherwise.
C3_PaddedBeforeLookup ==
    \A j \in IndexesOf("http") :
       /\ script = "gf" => events[j].b = C3_Padded(C3_DecodedFor(j))
       /\ script = "piq" =>
             events[j].b =
                C3_Padded(C3_CellBarcode(
                    disk[InputFile].cells[<<events[j].row, BARCODE_COLUMN>>].v))

(***************************************************************************)
(* C4.                                                                     *)
(***************************************************************************)
C4_MarkerKinds == {"error", "query_failed", "skip", "process_error"}

\* In sheet sh the source cells lie before start_col, header i and field i
\* lie in column start_col + i, headers in row 1, markers in column start_col.
C4_Aligned(sh) ==
    \A rc \in DOMAIN sh :
       LET c == sh[rc]
       IN /\ c.kind = "src" => rc[2] < start_col
          /\ c.kind \notin {"none", "src"} => rc[2] >= start_col
          /\ c.kind \in {"header", "field"} => rc[2] = start_col + c.i
          /\ c.kind = "header" => rc[1] = 1
          /\ c.kind \in C4_MarkerKinds => rc[2] = start_col

\* C4: the first column a lookup script writes is the source sheet's
\* max_column + 1, and in the workbook in memory and in every file written
\* header i and field i of every row lie in column start_col + i.
C4_StartColumn ==
    (script \in LookupScripts /\ pc # "start") =>
       /\ start_col = max_column(disk[InputFile].cells) + 1
       /\ C4_Aligned(sheet)
       /\ \A f \in FileNames : disk[f].exists => C4_Aligned(disk[f].cells)

\* A finished run of barcode_scanner_alicloud on a sheet of MaxSrcCol
\* columns: the third header and a row's third field share a column.
C4_Witness ==
    /\ pc = "done"
    /\ script = "alicloud"
    /\ start_col = MaxSrcCol + 1
    /\ disk[output_file].cells[<<1, start_col + 2>>] = HeaderCell(2)
    /\ \E r \in Rows : disk[output_file].cells[<<r, start_col + 2>>].kind = "field"

(***************************************************************************)
(* C5.                                                                     *)
(***************************************************************************)
\* The first appended cell of row r holds an error string, the others ''.
C5_ErrorThenBlank(r) ==
    /\ OutputSheet[<<r, start_col>>].kind \in {"error", "query_failed"}
    /\ RestBlank(r, 1)

\* The GTIN cell of row r holds the barcode, every other appended cell ''.
C5_BarcodeOnly(r) ==
    /\ OutputSheet[<<r, start_col>>].kind = "blank"
    /\ OutputSheet[<<r, start_col + 1>>].kind = "field"
    /\ OutputSheet[<<r, start_col + 1>>].i = 1
    /\ OutputSheet[<<r, start_col + 1>>].v.s # <<>>
    /\ RestBlank(r, 2)

\* C5 (as amended): once the results are written, a row whose lookup failed
\* holds an error string in its first appended cell and '' in the others -
\* except in barcode_scanner_gf, where it holds the barcode in the GTIN cell
\* (the second appended one) and '' in every other appended cell.
C5_LookupFailureWritten ==
    \A r \in Rows :
       (script \in LookupScripts /\ LookupFailed(r) /\ OutputWritten) =>
          IF script = "gf" THEN C5_BarcodeOnly(r) ELSE C5_ErrorThenBlank(r)

\* A written failed lookup of barcode_scanner_gf, and of another script.
C5_Witness ==
    /\ OutputWritten
    /\ script = "gf"
    /\ pc = "done"
    /\ \E r \in Rows :
          /\ LookupFailed(r)
          /\ disk[output_file].cells[<<r, start_col + 1>>].v = StrValue(<<"0">> \o B13)

\* C5 (as stated): once the results are written, a row whose lookup failed
\* holds an error string in its first appended cell and '' in the others,
\* in every lookup script.
C5_ErrorStringEverywhere ==
    \A r \in Rows :
       (script \in LookupScripts /\ LookupFailed(r) /\ OutputWritten) =>
          C5_ErrorThenBlank(r)

(***************************************************************************)
(* C6.                                                                     *)
(***************************************************************************)
\* The last thing that happened to row r is a failure: an exception caught
\* by the row's handler, a failed lookup, or an image without a barcode.
C6_RowFailed(r) ==
    /\ RowOutcomeIndexes(r) # {}
    /\ LET last == events[MaxOf(RowOutcomeIndexes(r))]
       IN \/ last.e = "failed"
          \/ last.e = "call" /\ ~last.success
          \/ last.e = "decoded" /\ last.b = <<>>

\* Some appended cell of row r holds a text: an error string or a value.
C6_Marked(r) ==
    \E c \in Cols :
       /\ c >= start_col
       /\ OutputSheet[<<r, c>>].kind \in C4_MarkerKinds \cup {"field"}

\* C6: once the results are written, every row that was attempted and
\* failed holds a marker in its appended cells.
C6_FailureVisible ==
    \A r \in Rows : (C6_RowFailed(r) /\ OutputWritten) => C6_Marked(r)

(***************************************************************************)
(* C7.                                                                     *)
(***************************************************************************)
\* C7: nothing raised while decoding, looking up or writing results leaves
\* main() as an exception: a run ends normally (after the final save or its
\* fallback), by the interrupt of the user, or by the sys.exit with which
\* barcode_scanner_alicloud answers a failed write.
C7_NothingEscapes == exc \in {"none", "KeyboardInterrupt", "SystemExit"}

(***************************************************************************)
(* C8.                                                                     *)
(***************************************************************************)
\* i and j are consecutive events of the kind: none of the kind in between.
C8_Consecutive(kind, i, j) ==
    /\ i \in IndexesOf(kind)
    /\ j \in IndexesOf(kind)
    /\ i < j
    /\ \A k \in IndexesOf(kind) : ~(i < k /\ k < j)

C8_SleepsBetween(i, j) == {k \in IndexesOf("sleep") : i < k /\ k < j}

C8_FailedBetween(i, j) == {k \in IndexesOf("failed") : i < k /\ k < j}

\* The calls made between the requests at i and j.
C8_CallsBetween(i, j) == {k \in IndexesOf("call") : i < k /\ k < j}

\* C8 (as amended): between the last request of one lookup call and the
\* first request of the next call of a run
\*  - barcode_scanner_mxnzp and product_info_query always sleep;
\*  - barcode_scanner_alicloud sleeps unless the handler of the row caught an
\*    exception after the first call;
\*  - barcode_scanner_gf sleeps exactly when less than the minimum interval
\*    has elapsed since the previous call returned, and then for the rest of
\*    the interval;
\*  - barcode_scanner_tianapi and __barcode_scanner never sleep.
C8_SleepBetweenCalls ==
    /\ script \in {"tianapi", "legacy"} => IndexesOf("sleep") = {}
    /\ \A i, j \in EventIndexes :
          (/\ script \in LookupScripts
           /\ C8_Consecutive("http", i, j)
           /\ C8_CallsBetween(i, j) # {}) =>
             CASE script \in {"mxnzp", "piq"} -> C8_SleepsBetween(i, j) # {}
               [] script = "alicloud" ->
                    C8_SleepsBetween(i, j) # {} \/ C8_FailedBetween(i, j) # {}
               [] script = "gf" ->
                    \A c \in C8_CallsBetween(i, j) :
                       IF events[c].d < QpsInterval
                       THEN \E k \in C8_SleepsBetween(i, j) :
                               /\ C8_SleepsBetween(i, j) = {k}
                               /\ events[k].d = QpsInterval - events[c].d
                       ELSE C8_SleepsBetween(i, j) = {}
               [] OTHER -> C8_SleepsBetween(i, j) = {}

\* Two requests of barcode_scanner_gf, the second call less than the
\* interval after the first, with the sleep that fills the interval.
C8_Witness ==
    /\ script = "gf"
    /\ \E i, j \in EventIndexes :
          /\ C8_Consecutive("http", i, j)
          /\ \E c \in C8_CallsBetween(i, j) : events[c].d = 2
          /\ \E k \in C8_SleepsBetween(i, j) : events[k].d = 8

\* C8 (as stated): in every lookup script there is a sleep between the
\* requests of any two consecutive lookup calls of a run.
C8_SleepBetweenRequests ==
    \A i, j \in EventIndexes :
       (/\ script \in LookupScripts
        /\ C8_Consecutive("http", i, j)
        /\ C8_CallsBetween(i, j) # {}) =>
          C8_SleepsBetween(i, j) # {}

(***************************************************************************)
(* C9.                                                                     *)
(***************************************************************************)
\* The requests sent by the call at index i: those before the next call.
C9_RequestsOf(i) ==
    {k \in IndexesOf("http") :
        /\ i < k
        /\ \A j \in IndexesOf("call") : ~(i < j /\ j < k)}

\* The results recorded so far carry a success tag, and an error string
\* when it is false.
C9_ResultsTagged ==
    script \in ImageScanners \cup {"piq"} =>
       \A r \in DOMAIN query_results :
          /\ query_results[r].success \in BOOLEAN
          /\ ~query_results[r].success => query_results[r].error # ""

\* C9 (as amended): a lookup call sends exactly one HTTP request for its
\* barcode - except in barcode_scanner_alicloud, whose connection pool
\* re-sends a failed request up to 3 times, so that a call sends 1 to 4 - and
\* its outcome becomes one result with a success tag and, when that is
\* false, an error string.
C9_RequestsPerCall ==
    /\ C9_ResultsTagged
    /\ \A i \in IndexesOf("call") :
          script \in LookupScripts =>
             /\ \A k \in C9_RequestsOf(i) :
                   events[k].b = events[i].b /\ events[k].row = events[i].row
             /\ IF script = "alicloud"
                THEN Cardinality(C9_RequestsOf(i)) \in 1..4
                ELSE Cardinality(C9_RequestsOf(i)) = 1

\* A call of barcode_scanner_alicloud that sent four requests.
C9_Witness ==
    /\ script = "alicloud"
    /\ \E i \in IndexesOf("call") : Cardinality(C9_RequestsOf(i)) = 4

\* C9 (as stated): every lookup call sends exactly one HTTP request, and its
\* outcome becomes one result with a success tag and an error string.
C9_OneRequestPerCall ==
    /\ C9_ResultsTagged
    /\ \A i \in IndexesOf("call") :
          script \in LookupScripts => Cardinality(C9_RequestsOf(i)) = 1

(***************************************************************************)
(* C10.                                                                    *)
(***************************************************************************)
C10_WrittenFiles == {f \in FileNames : f # InputFile /\ disk[f].exists}

\* C10: when barcode_scanner_alicloud ends by the user's interrupt, the
\* normal output file has not been written; what was written (the buffered
\* results, when there are any) went to one other file.
C10_InterruptFlush ==
    (script = "alicloud" /\ exc = "KeyboardInterrupt") =>
       /\ ~disk[output_file].exists
       /\ query_results = <<>> => C10_WrittenFiles = {}
       /\ Cardinality(C10_WrittenFiles) <= 1

(***************************************************************************)
(* C11.  product_info_query saves after every row.                         *)
(***************************************************************************)
\* The rows whose processing has completed: the loop has gone past them.
C11_Completed == IF script = "piq" /\ pc # "start" THEN start_row..(pos - 1) ELSE {}

\* The output file holds row r as the workbook in memory does, and the row
\* has its result: a field, a skip marker, an error or a processing error.
C11_RowSaved(r) ==
    /\ disk[output_file].exists
    /\ \A c \in Cols : disk[output_file].cells[<<r, c>>] = sheet[<<r, c>>]
    /\ sheet[<<r, start_col>>].kind \in {"field", "blank", "skip", "error", "process_error"}

\* The fallback of the final save removed the output file and could not
\* rename the temporary file into its place.
C11_LeftInTemp ==
    /\ pc = "done"
    /\ ~disk[output_file].exists
    /\ disk[temp_output(output_file)] = FileOf(sheet)

\* C11 (amended): in product_info_query every row the loop has gone past is
\* in the saved output file with its final result - while the loop runs,
\* after an interrupt or a crash, and after the final save - except when the
\* fallback of the final save has removed the output file and failed to
\* rename temp_<output> into its place; the results are then in temp_<output>.
C11_SavedAfterEveryRow ==
    script = "piq" =>
        \/ \A r \in C11_Completed : C11_RowSaved(r)
        \/ C11_LeftInTemp

\* An interrupt at the last row: the rows before it are saved, one of them
\* with the provider's fields.
C11_Witness ==
    /\ script = "piq"
    /\ pc = "raised"
    /\ exc = "KeyboardInterrupt"
    /\ pos = MaxRow
    /\ pos > start_row
    /\ \E r \in C11_Completed : disk[output_file].cells[<<r, start_col>>].kind = "field"

\* C11 (as stated): at any moment the saved output file holds the final
\* result of every completed row.
C11_SavedAtAnyMoment ==
    script = "piq" => \A r \in C11_Completed : C11_RowSaved(r)

(***************************************************************************)
(* C12.  product_info_query, --start-row as a checkpoint.                  *)
(***************************************************************************)
\* C12 (as stated): after an interrupted run that saved the rows below k, a
\* second run with --start-row k ends with an output file that has the
\* earlier results of the rows below k, in the same appended columns.
C12_ResumeKeepsEarlierRows ==
    (/\ script = "piq"
     /\ run = 2
     /\ first.ended = "raised"
     /\ start_row > first.start_row
     /\ pc = "done"
     /\ disk[output_file].exists)
    => /\ start_col = first.start_col
       /\ \A r \in first.start_row..(start_row - 1) : \A c \in Cols :
             c >= start_col =>
                disk[output_file].cells[<<r, c>>] = first.file.cells[<<r, c>>]

(***************************************************************************)
(* C13.  barcode_scanner_alicloud, "real-time saving".                     *)
(***************************************************************************)
\* The rows whose query has completed and whose result is buffered.
C13_Queried == {query_results[j].row_idx : j \in 1..Len(query_results)}

\* C13 (as stated): when the next row is about to be queried, every row
\* queried before has its result in the output file.
C13_SavedBeforeNextQuery ==
    (script = "alicloud" /\ pc = "query") =>
        \A r \in C13_Queried :
            /\ disk[output_file].exists
            /\ disk[output_file].cells[<<r, start_col>>].kind # "none"

(***************************************************************************)
(* C14.  A second run with the same arguments.                             *)
(***************************************************************************)
\* C14: a lookup script run again on the same input with the same arguments,
\* the images and the provider answering as before, appends at the same
\* column, and when both runs finish the workbook of the second - headers,
\* values, positions - is the workbook of the first.
C14_SameAppendedColumns ==
    (run = 2 /\ start_row = first.start_row /\ pc # "start") =>
        /\ start_col = first.start_col
        /\ (pc = "done" /\ first.ended = "done") => written_workbook = first.cells

\* Both runs finished and wrote the provider's fields for a row.
C14_Witness ==
    /\ run = 2
    /\ pc = "done"
    /\ first.ended = "done"
    /\ start_row = first.start_row
    /\ script \in {"tianapi", "alicloud"}
    /\ \E r \in Rows : first.cells[<<r, first.start_col>>].kind = "field"
    /\ written_workbook = first.cells

(***************************************************************************)
(* C15.  HeartGuardian: ESC and BackSpace.                                 *)
(***************************************************************************)
C15_Alive == {w \in WindowIds : windows[w].state = "alive"}
C15_Destroyed == {w \in WindowIds : windows[w].state = "destroyed"}

\* After close_all_windows: the list is empty, the flags are set, the main
\* loop is told to quit, and a window that is still open is one that
\* on_window_close had taken out of all_windows.
C15_Closed ==
    quit =>
        /\ all_windows = <<>>
        /\ ~running
        /\ thread_stop
        /\ \A w \in C15_Alive : windows[w].unlisted

\* BackSpace in window w destroys w and touches nothing else; once the main
\* loop is told to quit no window is created.
C15_Step ==
    /\ \A w \in WindowIds :
          BackSpace(w) =>
             /\ windows'[w].state = "destroyed"
             /\ \A v \in WindowIds \ {w} : windows'[v] = windows[v]
             /\ all_windows' = all_windows
             /\ quit' = quit
             /\ running' = running
    /\ quit => created(windows') = created(windows)

C16_Completes == request.b64 = "ok" /\ request.bytes = "image" /\ request.reader = "ok"

\* C16: whatever the request, the endpoint answers with a StandardResponse.
\* When recognition completes the code is 0 and data holds the joined text,
\* the mean confidence and the processing time; when process_image raises
\* the code is 500, msg is the exception's message and there is no data.
C16_AlwaysStandardResponse ==
    response # NoResponse =>
        /\ response.kind = "StandardResponse"
        /\ C16_Completes =>
              /\ response.code = 0
              /\ response.msg = NoMsg
              /\ response.data.given
              /\ response.data.text =
                    Join([j \in 1..Len(request.results) |-> request.results[j].text])
              /\ response.data.confidence.num * Len(request.results) =
                    response.data.confidence.den
                       * Sum([j \in 1..Len(request.results) |-> request.results[j].prob])
              /\ response.data.words = Len(request.results)
              /\ response.data.processing_time \in ProcessingTimes
        /\ ~C16_Completes =>
              /\ response.code = 500
              /\ response.msg \in ServiceExceptions
              /\ response.data = NoData

\* The reader raised on a decodable image and the endpoint answered 500.
C16_Witness ==
    /\ request.reader = "raises"
    /\ response.kind = "StandardResponse"
    /\ response.code = 500
    /\ response.msg = "RuntimeError"

(***************************************************************************)
(* C17.  simple_ocr: image columns and result columns.                     *)
(***************************************************************************)
\* The answers recorded for the cell (r, c), in the order they came.
C17_Answers(r, c) ==
    {j \in 1..Len(events) :
        events[j].e = "recognized" /\ events[j].row = r /\ events[j].d = c}

\* Every image the loops reach is kept for the result column that stands in
\* RESULT_COLUMNS where the image's column stands in IMAGE_COLUMNS.
C17_Bound ==
    \A k \in 1..Len(todo) :
        \E i \in 1..Len(IMAGE_COLUMNS) :
            /\ IMAGE_COLUMNS[i] = todo[k].col
            /\ RESULT_COLUMNS[i] = todo[k].result_col

\* C17 (amended): in simple_ocr the i-th image column is bound to the i-th
\* result column; once the results are written, a cell (r, result column)
\* holds the text of the last image processed for it - an earlier image
\* anchored at the same cell, or in an image column that shares the result
\* column, loses its text - and every other cell is as in the input.  When
\* the two lists differ in length the run ends before the copy and before
\* any request.
C17_ImageColumnToResultColumn ==
    script = "ocr" =>
        /\ Len(IMAGE_COLUMNS) # Len(RESULT_COLUMNS) =>
              /\ ~disk[output_file].exists
              /\ events = <<>>
              /\ pc \in {"start", "done"}
        /\ (Len(IMAGE_COLUMNS) = Len(RESULT_COLUMNS) /\ pc # "start") => C17_Bound
        /\ pc \in {"save", "fallback", "done"} /\ Len(IMAGE_COLUMNS) = Len(RESULT_COLUMNS) =>
              \A r \in Rows, c \in Cols :
                 IF C17_Answers(r, c) # {}
                 THEN sheet[<<r, c>>] =
                         cell_of(0, StrValue(events[MaxOf(C17_Answers(r, c))].b))
                 ELSE sheet[<<r, c>>] = disk[InputFile].cells[<<r, c>>]

\* Two images of column 2 and column 1 in the same row, both columns bound
\* to result column 3, recognised with different texts: the cell holds the
\* second.
C17_Witness ==
    /\ script = "ocr"
    /\ pc = "done"
    /\ IMAGE_COLUMNS = <<2, 1>>
    /\ RESULT_COLUMNS = <<3, 3>>
    /\ \E j, k \in C17_Answers(2, 3) :
          /\ j < k
          /\ events[j].b = <<"t">>
          /\ events[k].b = <<"u">>
    /\ sheet[<<2, 3>>] = FieldCell(0, StrValue(<<"u">>))

\* C17 (as stated): the text recognised for an image is in row r of its
\* result column once the results are written.
C17_EveryTextWritten ==
    (script = "ocr" /\ pc \in {"save", "fallback", "done"}
        /\ Len(IMAGE_COLUMNS) = Len(RESULT_COLUMNS)) =>
        \A j \in 1..Len(events) :
            events[j].e = "recognized" =>
                sheet[<<events[j].row, events[j].d>>] = cell_of(0, StrValue(events[j].b))

(***************************************************************************)
(* C18.  The output is a copy of the input with appended columns.          *)
(***************************************************************************)
\* The columns of the input sheet.
C18_SourceCols == 1..max_column(disk[InputFile].cells)

\* The workbook sh has, in the columns of the input, the cells of the input.
C18_KeepsSource(sh) ==
    \A r \in Rows, c \in C18_SourceCols : sh[<<r, c>>] = disk[InputFile].cells[<<r, c>>]

\* Every file a lookup script has written - the output, the temporary, the
\* interrupted and the backup file - keeps the input's columns, and so does
\* the workbook in memory once it is loaded.
C18_Kept ==
    script \in LookupScripts =>
        /\ \A f \in FileNames : disk[f].exists => C18_KeepsSource(disk[f].cells)
        /\ sheet # EmptySheet => C18_KeepsSource(sheet)

\* No step of a lookup script writes the input file.
C18_InputNotWritten == script \in LookupScripts => disk'[InputFile] = disk[InputFile]

\* C18: a lookup script never writes its input file, and in the output copy
\* every cell in a column up to the input's max column keeps the value it
\* has in the input, whatever the rows' results are.
C18_OutputIsCopyWithAppendedColumns ==
    [] C18_Kept /\ [][C18_InputNotWritten]_vars

\* A finished run of barcode_scanner_mxnzp or product_info_query on an
\* input of MaxSrcCol columns: the provider's fields stand right of them in
\* the saved output.
C18_Witness ==
    /\ script \in {"mxnzp", "piq"}
    /\ pc = "done"
    /\ max_column(disk[InputFile].cells) = MaxSrcCol
    /\ disk[output_file].exists
    /\ \E r \in Rows : disk[output_file].cells[<<r, MaxSrcCol + 1>>].kind = "field"
    /\ C18_KeepsSource(disk[output_file].cells)

(***************************************************************************)
(* C19.  get_config_from_api falls back to the defaults.                   *)
(***************************************************************************)
\* The answer holds a valid value of a list setting: the request succeeded
\* with status 200, the structure is right and the field is a string that
\* holds a JSON array.
C19_ListObtained(name) ==
    /\ before_fields(api_config) = "fields"
    /\ api_config.cc = "dict"
    /\ api_config.fields[name].present
    /\ api_config.fields[name].t = "str"
    /\ api_config.fields[name].text = "list"

\* The answer holds a valid max_windows: a string that int() accepts, of a
\* positive value.
C19_MaxWindowsObtained ==
    /\ before_fields(api_config) = "fields"
    /\ api_config.cc = "dict"
    /\ api_config.fields["max_windows"].present
    /\ api_config.fields["max_windows"].t = "str"
    /\ api_config.fields["max_windows"].text = "chars"
    /\ ParseInt(api_config.fields["max_windows"].chars).ok
    /\ ParseInt(api_config.fields["max_windows"].chars).n > 0

\* C19: get_config_from_api never raises; a setting the answer does not
\* validly hold - the request failed, the status is not 200, the structure
\* is wrong, the field does not parse - comes back as its default, any other
\* value is the one parsed from the answer, and max_windows is a positive
\* integer.
C19_DefaultsWhenNotObtained ==
    gpc # "config" =>
        /\ ~config_raised
        /\ MAX_WINDOWS \in Nat
        /\ MAX_WINDOWS > 0
        /\ ~C19_ListObtained("tips") => tips = DEFAULT_TIPS
        /\ tips # DEFAULT_TIPS => tips = api_config.fields["tips"].items
        /\ ~C19_ListObtained("bg_colors") => bg_colors = DEFAULT_BG_COLORS
        /\ bg_colors # DEFAULT_BG_COLORS =>
              bg_colors = api_config.fields["bg_colors"].items
        /\ ~C19_MaxWindowsObtained => MAX_WINDOWS = DEFAULT_MAX_WINDOWS
        /\ MAX_WINDOWS # DEFAULT_MAX_WINDOWS =>
              MAX_WINDOWS = ParseInt(api_config.fields["max_windows"].chars).n

\* An answer whose tips parse, whose bg_colors are no JSON and whose
\* max_windows is negative: the first is taken, the other two are defaults.
C19_Witness ==
    /\ gpc # "config"
    /\ ~config_raised
    /\ api_config.fields["bg_colors"] = JsonString("invalid", <<>>)
    /\ api_config.fields["max_windows"] = CharString(<<"-", "3">>)
    /\ tips = <<"tip">>
    /\ bg_colors = DEFAULT_BG_COLORS
    /\ MAX_WINDOWS = DEFAULT_MAX_WINDOWS

(***************************************************************************)
(* C20.  The decode attempts are bounded.                                  *)
(***************************************************************************)
\* How many attempts of a group the last call made.
C20_Count(groups) ==
    Cardinality({j \in 1..Len(tried) : tried[j].attempt.group \in groups})

\* C20: whatever the image bytes are, decode_barcode_from_image invokes the
\* decoder at most 22 times - once on the image as it is, 5 times on the
\* preprocessed images, 10 times on the rotations by -10..10 in steps of 2
\* without 0, 3 times on the scalings, once on the crop, twice with OpenCV -
\* at most 20 times without OpenCV, and returns a (value, symbology) pair or
\* (None, None); an exception of an attempt ends it with (None, None).
C20_BoundedAttempts ==
    pc = "returned" =>
        /\ Len(tried) <= (IF cv2 THEN 22 ELSE 20)
        /\ C20_Count({"as_is"}) <= 1
        /\ C20_Count({"grayscale", "contrast", "sharpened", "blurred", "brightness"}) <= 5
        /\ C20_Count({"rotated"}) <= 10
        /\ \A j \in 1..Len(tried) :
              tried[j].attempt.group = "rotated" =>
                 tried[j].attempt.arg \in {-10, -8, -6, -4, -2, 2, 4, 6, 8, 10}
        /\ C20_Count({"scaled"}) <= 3
        /\ C20_Count({"cropped"}) <= 1
        /\ C20_Count({"adaptive_threshold", "morphology"}) <= (IF cv2 THEN 2 ELSE 0)
        /\ exc = "none"
        /\ \/ ret = NoBarcode
           \/ /\ ret.found
              /\ ret.value # <<>>
              /\ ret.type \in {"EAN13", "EAN8"}
        /\ (\E j \in 1..Len(tried) : tried[j].outcome.res = "raised") => ret = NoBarcode

\* An image in which nothing is found, with OpenCV: all 22 attempts are made
\* and (None, None) is returned.
C20_Witness ==
    /\ pc = "returned"
    /\ cv2
    /\ Len(tried) = 22
    /\ C20_Count({"rotated"}) = 10
    /\ ret = NoBarcode

(***************************************************************************)
(* C21.  barcode_scanner_gf: barcode-only rows and the three counts.       *)
(***************************************************************************)
\* The failed lookup call that is the last thing that happened to row r.
C21_Call(r) == MaxOf(RowOutcomeIndexes(r))

\* The text pyzbar found for the image that call was made for.
C21_Decoded(r) ==
    events[MaxOf({j \in IndexesOf("decoded") : events[j].row = r /\ j < C21_Call(r)})].b

\* C21: in barcode_scanner_gf a row whose barcode was decoded and whose GDS
\* lookup failed is recorded as a success marked barcode_only; its GTIN is
\* the decoded barcode as format_barcode returns it and its other fields
\* are ''.  Every recorded row is in exactly one of the three counted
\* classes and the three counts add up to the number of recorded rows.
C21_BarcodeOnlyAndCounts ==
    script = "gf" =>
        /\ \A r \in Rows :
              LookupFailed(r) =>
                 /\ r \in DOMAIN query_results
                 /\ query_results[r].success
                 /\ query_results[r].barcode_only
                 /\ query_results[r].gtin = format_barcode(C21_Decoded(r))
                 /\ \A i \in 1..Len(GdsFields) :
                       field_value(query_results[r], GdsFields[i]) =
                          IF GdsFields[i] = "GTIN"
                          THEN StrValue(format_barcode(C21_Decoded(r)))
                          ELSE StrValue(<<>>)
        /\ \A r \in DOMAIN query_results :
              Cardinality({c \in {"full", "barcode_only", "failed"} :
                  CASE c = "full" ->
                         query_results[r].success /\ ~query_results[r].barcode_only
                    [] c = "barcode_only" ->
                         query_results[r].success /\ query_results[r].barcode_only
                    [] OTHER -> ~query_results[r].success}) = 1
        /\ full_success_count(query_results) + barcode_only_count(query_results)
              + failed_count(query_results) = Cardinality(DOMAIN query_results)

\* A saved run with two recorded rows: one barcode-only after a failed
\* lookup of a 13-digit barcode, one failed.
C21_Witness ==
    /\ script = "gf"
    /\ pc = "done"
    /\ disk[output_file] = FileOf(sheet)
    /\ barcode_only_count(query_results) = 1
    /\ failed_count(query_results) = 1
    /\ full_success_count(query_results) = 0
    /\ \E r \in Rows :
          /\ LookupFailed(r)
          /\ query_results[r].gtin = <<"0">> \o B13

(***************************************************************************)
(* C22.  The minimum interval between provider requests.                   *)
(***************************************************************************)
\* The requests sent before the event at index c.
C22_RequestsBefore(c) == {h \in IndexesOf("http") : h < c}

\* The sleeps between the call at index c and the first request it sends.
C22_SleepsOf(c) ==
    {k \in IndexesOf("sleep") :
        /\ c < k
        /\ \A h \in IndexesOf("http") : c < h => k < h}

RECURSIVE C22_Slept(_)
C22_Slept(S) ==
    IF S = {} THEN 0
    ELSE LET k == CHOOSE x \in S : TRUE IN events[k].d + C22_Slept(S \ {k})

\* The time between the return of the previous call and the request of the
\* call at index c: what main measured plus what the call slept.
C22_Waited(c) == events[c].d + C22_Slept(C22_SleepsOf(c))

\* C22: in barcode_scanner_gf a request is sent at least the minimum
\* interval (1 second) after the previous call of the run returned: the
\* elapsed time and the sleep before the request add up to it.  In
\* barcode_scanner_mxnzp every request is followed at once by a sleep of 1
\* second, before anything is done for the next image.
C22_MinimumInterval ==
    /\ script = "gf" =>
          \A c \in IndexesOf("call") :
             C22_RequestsBefore(c) # {} =>
                /\ C22_Waited(c) >= QpsInterval
                /\ \A k \in C22_SleepsOf(c) : events[k].d = QpsInterval - events[c].d
    /\ script = "mxnzp" =>
          \A h \in IndexesOf("http") :
             /\ h + 1 \in EventIndexes
             /\ events[h + 1] = SleepEvent(events[h].row, MxnzpSleep)

\* A second call of barcode_scanner_gf made 0.2 seconds after the first
\* returned: it sleeps and its request goes out a full interval later.
C22_Witness ==
    /\ script = "gf"
    /\ \E c \in IndexesOf("call") :
          /\ C22_RequestsBefore(c) # {}
          /\ events[c].d = 2
          /\ C22_SleepsOf(c) # {}
          /\ C22_Waited(c) = QpsInterval
          /\ \E h \in IndexesOf("http") : c < h

(***************************************************************************)
(* C23.  product_info_query skips rows without a barcode.                  *)
(***************************************************************************)
\* The barcode cell of row r in the input.
C23_Cell(r) == disk[InputFile].cells[<<r, BARCODE_COLUMN>>].v

\* The cell is empty, holds blanks only, or holds the text '识别失败'.
C23_NoBarcode(r) ==
    \/ C23_Cell(r) = NoneValue
    \/ /\ C23_Cell(r).t = "str"
       /\ \A j \in 1..Len(C23_Cell(r).s) : C23_Cell(r).s[j] = " "
    \/ C23_Cell(r) = StrValue(RecognitionFailed)

\* The rows the loop has gone past, and those of them without a barcode.
C23_Done == IF script = "piq" /\ pc # "start" THEN start_row..(pos - 1) ELSE {}
C23_Skipped == {r \in C23_Done : C23_NoBarcode(r)}

\* No lookup was called and no request sent for row r, nothing is recorded.
C23_NoRequest(r) ==
    /\ \A j \in EventIndexes : events[j].row = r => events[j].e = "failed"
    /\ r \notin DOMAIN query_results

\* Row r is in the saved file as it is in the workbook.
C23_Saved(r) ==
    /\ pc \in {"loop", "query", "raised"} => disk[output_file].exists
    /\ disk[output_file].exists =>
          \A c \in Cols : disk[output_file].cells[<<r, c>>] = sheet[<<r, c>>]

\* The counters: every row gone past is processed, only queried rows can
\* be successes.
C23_Counted ==
    /\ total_processed = Cardinality(C23_Done)
    /\ success_count <= Cardinality(C23_Done \ C23_Skipped) + (IF pc = "raised" THEN 1 ELSE 0)
    /\ success_count <= Cardinality(DOMAIN query_results)

C24_InProgress(r) == pc \in {"decode", "query"} /\ todo[pos].row = r

\* How the processing of the last image of row r ended.
C24_Last(r) == events[MaxOf(RowOutcomeIndexes(r))]

\* The results main can have recorded for the image that ended that way.
C24_ResultsOfLast(r) ==
    LET last == C24_Last(r)
    IN CASE last.e = "failed" -> {RowErrorResult}
         [] last.e = "decoded" -> {NotFoundResult}
         [] last.success -> {SuccessResult(d, last.b) : d \in {"fields", "unwritable"}}
         [] script = "gf" -> {BarcodeOnlyResult(last.b)}
         [] OTHER -> {FailureResult(e) :
                         e \in {"api_error", "network_error", "query_exception"}}

\* The appended cells of row r hold the one result recorded for the row.
C24_OneResultWritten(r) ==
    write_result(OutputSheet, r, start_col, field_names(script, api_provider),
                 query_results[r]) = OutputSheet

\* The lookup calls issued for the images of row r.
C24_Calls(r) == {j \in IndexesOf("call") : events[j].row = r}

\* C24: in the image scanners the results are keyed by row only.  A row
\* with images in the selected columns has exactly one recorded result, the
\* result of the image of that row processed last (order of --image-cols,
\* then image index), whatever happened to earlier images of the row and
\* although their lookups were issued; that one result is what is written
\* into the row.
C24_LastImageOfRowWins ==
    script \in ImageScanners /\ pc # "start" =>
        /\ \A j \in 1..Len(todo), k \in 1..Len(todo) :
              j < k =>
                 LET a == todo[j]
                     b == todo[k]
                     At(c) == CHOOSE i \in 1..Len(IMAGE_COLUMNS) :
                                 /\ IMAGE_COLUMNS[i] = c
                                 /\ \A h \in 1..(i - 1) : IMAGE_COLUMNS[h] # c
                 IN \/ At(a.col) < At(b.col)
                    \/ At(a.col) = At(b.col) /\ a.idx < b.idx
        /\ \A r \in Rows :
              ~C24_InProgress(r) =>
                 /\ r \in DOMAIN query_results <=> RowOutcomeIndexes(r) # {}
                 /\ r \in DOMAIN query_results =>
                       /\ query_results[r] \in C24_ResultsOfLast(r)
                       /\ OutputWritten => C24_OneResultWritten(r)

\* barcode_scanner_mxnzp with --image-cols 2 1 and two images anchored in
\* row 2: the image in column 2 is decoded and looked up with success, the
\* image in column 1 after it is looked up without; the saved row holds the
\* failure alone.
C24_Witness ==
    /\ script = "mxnzp"
    /\ pc = "done"
    /\ disk[output_file] = FileOf(sheet)
    /\ IMAGE_COLUMNS = <<2, 1>>
    /\ images = <<[row |-> 2, col |-> 1], [row |-> 2, col |-> 2]>>
    /\ todo = <<[idx |-> 1, row |-> 2, col |-> 2], [idx |-> 0, row |-> 2, col |-> 1]>>
    /\ Cardinality(C24_Calls(2)) = 2
    /\ \E j \in C24_Calls(2), k \in C24_Calls(2) :
          /\ j < k
          /\ events[j].success
          /\ ~events[k].success
          /\ \E h \in IndexesOf("http") : j < h /\ h < k /\ events[h].row = 2
    /\ DOMAIN query_results = {2}
    /\ ~query_results[2].success
    /\ sheet[<<2, start_col>>] = ErrorCell(query_results[2].error)


=============================================================================
